---- MODULE Spec2Model ----
(***************************************************************************)
(* Novelty-assessment pipeline of inventor-ai.                             *)
(*                                                                         *)
(* Units.  similarity_score and channel scores are integers in hundredths  *)
(* (80 is 0.8); overall_novelty_score is in thousandths (1000 is 1.0);     *)
(* truth scores are in ten-thousandths (8500 is 0.85).  The arithmetic is  *)
(* exact; IEEE rounding of the JavaScript doubles is not modelled.         *)
(*                                                                         *)
(* Language-model output.  The text of a completion is either not          *)
(* parseable as JSON, or a JSON object in which the per-result analysis    *)
(* list and the truth_scores object may each be absent.  Numbers that are  *)
(* present respect the 0-1 scale the analysis prompts ask for.             *)
(*                                                                         *)
(* Scheduling.  Promise.all starts the web, retail and patent agents in    *)
(* that order; they share no mutable state, so every interleaving of their *)
(* steps gives the same three results.  Spec runs them one after another   *)
(* in that order, each in steps (search, analysis).  Not modelled:         *)
(* confidence, timestamps, texts of findings, the delays of withRetry.     *)
(*                                                                         *)
(* SpecAgg is the handler from the point where the three results are in,   *)
(* started from every triple of results; Spec is the whole request.        *)
(***************************************************************************)
EXTENDS Integers, Sequences, FiniteSets, TLC

VARIABLES
    env,        \* process.env: which credentials are set
    pc,         \* position of the POST handler of /api/novelty-check
    agent,      \* per channel: position and intermediate data of its agent
    results,    \* per channel: the NoveltyResult its agent returned
    trace,      \* per channel: external calls the agent has made so far
    response,   \* the HTTP response of the handler
    ai_memory,  \* the ai_memory table: rows inserted, and how the insert ended
    gateway,    \* one createCompletion call: position, provider calls made
    expansion,  \* one expandInvention call: request, model outcome, result
    retry,      \* one withRetry call: attempts, waits, outcome
    cache,      \* the search_cache table and the clock
    limiter,    \* one API client instance: its clock, its calls
    handoff,    \* one request's queries: those supplied, those each agent uses
    merged,     \* one mergePatentResults call: its two lists and its result
    signup,     \* the signup endpoint: accounts, requests in progress
    searches    \* one runMultipleSearches call: the answers, the response

\* the request pipeline, and the library components checked on their own
pipelineVars == <<env, pc, agent, results, trace, response, ai_memory>>
libVars == <<gateway, expansion, retry, cache, limiter, handoff, merged, signup, searches>>

\* the library components other than the one a specification is about
notGateway == <<expansion, retry, cache, limiter, handoff, merged, signup, searches>>
notExpansion == <<gateway, retry, cache, limiter, handoff, merged, signup, searches>>
notRetry == <<gateway, expansion, cache, limiter, handoff, merged, signup, searches>>
notCache == <<gateway, expansion, retry, limiter, handoff, merged, signup, searches>>
notLimiter == <<gateway, expansion, retry, cache, handoff, merged, signup, searches>>
notHandoff == <<gateway, expansion, retry, cache, limiter, merged, signup, searches>>
notMerged == <<gateway, expansion, retry, cache, limiter, handoff, signup, searches>>
notSignup == <<gateway, expansion, retry, cache, limiter, handoff, merged, searches>>
notSearches == <<gateway, expansion, retry, cache, limiter, handoff, merged, signup>>

vars == <<pipelineVars, libVars>>

\* a component that takes no part in the specification at hand
LibIdle ==
    /\ gateway = "unused" /\ expansion = "unused"
    /\ retry = "unused" /\ cache = "unused"
    /\ limiter = "unused"
    /\ handoff = "unused" /\ merged = "unused" /\ signup = "unused"
    /\ searches = "unused"

(***************************************************************************)
(* Bounds                                                                  *)
(***************************************************************************)
MaxFindings == 2    \* findings per channel result handed to the aggregator
MaxResults == 1     \* raw results a channel search returns in one run

Channels == {"web", "retail", "patent"}

\* similarity scores a finding can carry when it reaches the aggregator
SimValues == {30, 50, 80}

(***************************************************************************)
(* NoveltyResult                                                           *)
(***************************************************************************)
Truth(o, p, c, s) ==
    [defined |-> TRUE, objective_truth |-> o, practical_truth |-> p,
     completeness |-> c, contextual_scope |-> s]

\* truth_scores absent from the object (the JavaScript value undefined)
UndefinedTruth ==
    [defined |-> FALSE, objective_truth |-> 0, practical_truth |-> 0,
     completeness |-> 0, contextual_scope |-> 0]

ZeroTruth == Truth(0, 0, 0, 0)

NoveltyResult(novel, fs, t, sum) ==
    [is_novel |-> novel, findings |-> fs, truth_scores |-> t, summary |-> sum]

NoResult == NoveltyResult(FALSE, <<>>, UndefinedTruth, "pending")

\* Math.max(...xs, floor)
RECURSIVE MaxOf(_, _)
MaxOf(xs, floor) ==
    IF xs = <<>> THEN floor
    ELSE LET m == MaxOf(Tail(xs), floor)
         IN IF Head(xs) > m THEN Head(xs) ELSE m

\* descending sequences over a set of scores, of length at most n
RECURSIVE SortedSeqs(_, _)
SortedSeqs(S, n) ==
    IF n = 0 THEN {<<>>}
    ELSE LET shorter == SortedSeqs(S, n - 1)
         IN shorter \cup
            UNION {{<<x>> \o t : t \in {u \in shorter : Len(u) = n - 1 /\
                                           (u = <<>> \/ x >= Head(u))}} :
                   x \in S}

(***************************************************************************)
(* Aggregator: POST /api/novelty-check, after the three agents returned    *)
(***************************************************************************)
\* variant: failure keyed off an empty finding list as well as the sentinel
Failed_EmptyFindings(r) ==
    r.truth_scores.completeness = 0 \/ r.findings = <<>>

Failed(r) == r.truth_scores.completeness = 0

\* variant: a failed channel scored from its flag and findings, not as unknown
ChannelScore_NoUnknown(r) ==
    IF r.is_novel THEN 100 ELSE 100 - MaxOf(r.findings, 0)

ChannelScore(r) ==
    IF Failed(r) THEN 50
    ELSE IF r.is_novel THEN 100
    ELSE 100 - MaxOf(r.findings, 0)

overall_novelty_score(web, retail, patent) ==
    ChannelScore(web) * 3 + ChannelScore(retail) * 3 + ChannelScore(patent) * 4

allFindings(web, retail, patent) ==
    web.findings \o retail.findings \o patent.findings

maxSimilarity(web, retail, patent) ==
    LET all == allFindings(web, retail, patent)
    IN IF Len(all) > 0 THEN MaxOf(Tail(all), Head(all)) ELSE 0

anyAgentFailed(web, retail, patent) ==
    Failed(web) \/ Failed(retail) \/ Failed(patent)

\* variant: the failure check placed before the high-conflict check
risk_level_IncompleteFirst(web, retail, patent) ==
    LET maxSim == maxSimilarity(web, retail, patent)
    IN IF anyAgentFailed(web, retail, patent) THEN "incomplete"
       ELSE IF maxSim >= 80 THEN "high_risk"
       ELSE IF maxSim >= 50 THEN "moderate_risk"
       ELSE "low_risk"

\* variant: partial data below the moderate threshold reported as low risk
risk_level_PartialLow(web, retail, patent) ==
    LET maxSim == maxSimilarity(web, retail, patent)
        failed == anyAgentFailed(web, retail, patent)
    IN IF maxSim >= 80 THEN "high_risk"
       ELSE IF failed /\ Len(allFindings(web, retail, patent)) = 0
            THEN "incomplete"
       ELSE IF maxSim >= 50 THEN "moderate_risk"
       ELSE "low_risk"

risk_level(web, retail, patent) ==
    LET maxSim == maxSimilarity(web, retail, patent)
        failed == anyAgentFailed(web, retail, patent)
    IN IF maxSim >= 80 THEN "high_risk"
       ELSE IF failed /\ Len(allFindings(web, retail, patent)) = 0
            THEN "incomplete"
       ELSE IF failed
            THEN (IF maxSim >= 50 THEN "moderate_risk" ELSE "incomplete")
       ELSE IF maxSim >= 50 THEN "moderate_risk"
       ELSE "low_risk"

avgTruthScores(web, retail, patent) ==
    LET w == web.truth_scores
        r == retail.truth_scores
        p == patent.truth_scores
    IN Truth((w.objective_truth + r.objective_truth + p.objective_truth) \div 3,
             (w.practical_truth + r.practical_truth + p.practical_truth) \div 3,
             (w.completeness + r.completeness + p.completeness) \div 3,
             (w.contextual_scope + r.contextual_scope + p.contextual_scope) \div 3)

\* variant: the partial-failure note appended at every level
recommendation_NoteAtEveryLevel(level, failed) ==
    [template |-> IF level = "high_risk" THEN "very_similar_found"
                  ELSE IF level = "incomplete" THEN "search_incomplete"
                  ELSE IF level = "moderate_risk" THEN "adjacent_found"
                  ELSE "no_obvious_matches",
     partialNote |-> failed]

\* the recommendation text: its template and whether the partial-failure
\* note is appended to it
recommendation(level, failed) ==
    IF level = "high_risk"
    THEN [template |-> "very_similar_found", partialNote |-> failed]
    ELSE IF level = "incomplete"
    THEN [template |-> "search_incomplete", partialNote |-> FALSE]
    ELSE IF level = "moderate_risk"
    THEN [template |-> "adjacent_found", partialNote |-> FALSE]
    ELSE [template |-> "no_obvious_matches", partialNote |-> FALSE]

next_steps(level) ==
    IF level = "high_risk" THEN "steps_high"
    ELSE IF level = "incomplete" THEN "steps_incomplete"
    ELSE IF level = "moderate_risk" THEN "steps_moderate"
    ELSE "steps_low"

NoveltyCheckResponse(web, retail, patent) ==
    LET level == risk_level(web, retail, patent)
    IN [status |-> 200,
        overall_novelty_score |-> overall_novelty_score(web, retail, patent),
        risk_level |-> level,
        recommendation |-> recommendation(level, anyAgentFailed(web, retail, patent)),
        next_steps |-> next_steps(level),
        truth_scores |-> avgTruthScores(web, retail, patent)]

ErrorResponse(code) ==
    [status |-> code, overall_novelty_score |-> 0, risk_level |-> "none",
     recommendation |-> [template |-> "none", partialNote |-> FALSE],
     next_steps |-> "none", truth_scores |-> UndefinedTruth]

NoResponse == ErrorResponse(0)

\* outcomes of supabase.from('ai_memory').insert(...): the client resolves
\* to {error} on a failed write, it does not reject
InsertOutcomes == {"ok", "error"}

\* the table's rows and the request's insert ("none": no projectId given)
Memory(rows, insert) == [rows |-> rows, insert |-> insert]

NoMemory == Memory(0, "none")

\* variant: the insert's error is thrown (throwOnError)
AfterInsert_ThrowOnError(ins, resp) ==
    IF ins = "error" THEN ErrorResponse(500) ELSE resp

\* await supabase.from('ai_memory').insert(...): the resolved value is not
\* read, and the response built before the insert is returned
AfterInsert(ins, resp) == resp

\* The handler from the point where Promise.all has resolved.  Reading
\* truth_scores.completeness of a result whose truth_scores is undefined
\* raises a TypeError, which the handler's catch turns into a 500.
POSTAggregate ==
    /\ pc = "aggregate"
    /\ LET web == results["web"]
           retail == results["retail"]
           patent == results["patent"]
       IN IF \E c \in Channels : ~results[c].truth_scores.defined
          THEN /\ response' = ErrorResponse(500)
               /\ UNCHANGED ai_memory
          ELSE \E projectId \in BOOLEAN, ins \in InsertOutcomes :
                 IF projectId
                 THEN /\ ai_memory' = Memory(IF ins = "ok" THEN ai_memory.rows + 1
                                             ELSE ai_memory.rows, ins)
                      /\ response' = AfterInsert(ins,
                             NoveltyCheckResponse(web, retail, patent))
                 ELSE /\ response' = NoveltyCheckResponse(web, retail, patent)
                      /\ UNCHANGED ai_memory
    /\ pc' = "done"
    /\ UNCHANGED <<env, agent, results, trace, libVars>>

(***************************************************************************)
(* The aggregator as a function of three agent results                     *)
(***************************************************************************)
AggTruths == {UndefinedTruth, ZeroTruth, Truth(7000, 6000, 4000, 5000)}

AggResults ==
    {NoveltyResult(n, fs, t, "any") :
        n \in BOOLEAN, fs \in SortedSeqs(SimValues, MaxFindings),
        t \in AggTruths \ {UndefinedTruth}}
    \cup {NoveltyResult(FALSE, <<>>, UndefinedTruth, "any")}

NoEnv == [anthropic |-> TRUE, openai |-> TRUE, tavily |-> TRUE,
          ebay |-> TRUE, patentsview |-> TRUE]

NoTrace ==
    [c \in Channels |-> [search |-> "none", found |-> 0, analysis |-> "none",
                         attempts |-> 0, thrown |-> "none"]]

IdleAgents == [c \in Channels |-> [at |-> "returned"]]

InitAgg ==
    /\ env = NoEnv
    /\ pc = "aggregate"
    /\ agent = IdleAgents
    /\ results \in [Channels -> AggResults]
    /\ trace = NoTrace
    /\ response = NoResponse
    /\ ai_memory = NoMemory
    /\ LibIdle

NextAgg == POSTAggregate

SpecAgg == InitAgg /\ [][NextAgg]_vars

(***************************************************************************)
(* AI completion gateway (lib/ai/ai-client.ts)                             *)
(***************************************************************************)
HaikuModel == "claude-3-haiku-20240307"

AnthropicModels ==
    {"claude-3-haiku-20240307", "claude-3-sonnet-20240229",
     "claude-3-opus-20240229", "claude-3-5-sonnet-20241022"}

\* MODEL_MAPPING[model] || 'gpt-4o-mini'
MODEL_MAPPING(model) ==
    IF model = "claude-3-haiku-20240307" THEN "gpt-4o-mini"
    ELSE IF model \in AnthropicModels THEN "gpt-4o"
    ELSE "gpt-4o-mini"

\* what a provider call can do: answer, or raise an error of a class
PrimaryOutcomes == {"ok", "rate_limit", "credit", "overloaded",
                    "invalid_request_400", "malformed_prompt"}
SecondaryOutcomes == {"ok", "error"}

shouldFallback(err) ==
    err \in {"rate_limit", "credit", "overloaded", "invalid_request_400"}

ConfigError ==
    "Both Anthropic and OpenAI are unavailable. Check API keys: ANTHROPIC_API_KEY and OPENAI_API_KEY"

Completion(ok, err, provider, model, calls) ==
    [ok |-> ok, error |-> err, provider |-> provider, model |-> model,
     calls |-> calls]

\* createCompletion with the primary call ending p1 and the secondary p2
createCompletion(e, model, p1, p2) ==
    LET first == IF e.anthropic THEN <<[provider |-> "anthropic", model |-> model]>>
                 ELSE <<>>
        second == first \o <<[provider |-> "openai", model |-> MODEL_MAPPING(model)]>>
    IN IF e.anthropic /\ p1 = "ok"
       THEN Completion(TRUE, "none", "anthropic", model, first)
       ELSE IF e.anthropic /\ ~shouldFallback(p1)
       THEN Completion(FALSE, p1, "anthropic", model, first)
       ELSE IF ~e.openai
       THEN Completion(FALSE, ConfigError, "none", model, first)
       ELSE IF p2 = "ok"
       THEN Completion(TRUE, "none", "openai", MODEL_MAPPING(model), second)
       ELSE Completion(FALSE, "openai_error", "openai", MODEL_MAPPING(model), second)

\* every way a createCompletion call of an agent can end
Completions(e) ==
    {createCompletion(e, HaikuModel, p1, p2) :
        p1 \in PrimaryOutcomes, p2 \in SecondaryOutcomes}

(***************************************************************************)
(* Text of an analysis completion                                          *)
(***************************************************************************)
Absent == 0 - 1           \* no similarity_score supplied for a result
ModelScores == {80}       \* similarity scores the model assigns

ModelTruths == {UndefinedTruth, Truth(5000, 5000, 0, 5000),
                Truth(8000, 7000, 6000, 7000)}

\* sequences of length n over S
RECURSIVE SeqsOfLen(_, _)
SeqsOfLen(S, n) ==
    IF n = 0 THEN {<<>>}
    ELSE {<<x>> \o t : x \in S, t \in SeqsOfLen(S, n - 1)}

Analysis(parsed, hasList, scores, novel, truth) ==
    [parsed |-> parsed, hasList |-> hasList, scores |-> scores,
     is_novel |-> novel, truth_scores |-> truth]

\* what JSON.parse makes of the text, for n results handed to the model:
\* a syntax error, an object without the per-result list, or an object
\* with the list, in which each result has a score or none
AnalysisTexts(n) ==
    {Analysis(FALSE, FALSE, <<>>, FALSE, UndefinedTruth)}
    \cup {Analysis(TRUE, FALSE, <<>>, nv, t) : nv \in BOOLEAN, t \in ModelTruths}
    \cup {Analysis(TRUE, TRUE, sc, nv, t) :
            sc \in SeqsOfLen(ModelScores \cup {Absent}, n),
            nv \in BOOLEAN, t \in ModelTruths}

\* insertion of x into a descending sequence
RECURSIVE InsertDesc(_, _)
InsertDesc(x, xs) ==
    IF xs = <<>> THEN <<x>>
    ELSE IF x >= Head(xs) THEN <<x>> \o xs
    ELSE <<Head(xs)>> \o InsertDesc(x, Tail(xs))

\* findings.sort((a, b) => b.similarity_score - a.similarity_score)
RECURSIVE SortDesc(_)
SortDesc(xs) ==
    IF xs = <<>> THEN <<>> ELSE InsertDesc(Head(xs), SortDesc(Tail(xs)))

TopFindings == 10

\* xs.slice(0, k)
Slice(xs, k) == IF Len(xs) <= k THEN xs ELSE SubSeq(xs, 1, k)

\* the similarity of each result: the model's score, or the default
Scored(scores, default) ==
    [i \in 1..Len(scores) |->
        IF scores[i] = Absent THEN default ELSE scores[i]]

(***************************************************************************)
(* Web channel (lib/search/tavily.ts, lib/ai/web-search-agent.ts)          *)
(***************************************************************************)
MaxQueries == 1     \* queries an agent searches with

Urls == 1..MaxResults

\* one tavilySearch call: results (a set of URLs), or an error
SearchOk(urls) == [error |-> "none", urls |-> urls]
SearchErr(kind) == [error |-> kind, urls |-> {}]

TavilyNoKey == "TAVILY_API_KEY environment variable is not set"

tavilySearch(e) ==
    IF ~e.tavily THEN {SearchErr(TavilyNoKey)}
    ELSE {SearchOk(u) : u \in SUBSET Urls}
         \cup {SearchErr("Invalid Tavily API key (401)"),
               SearchErr("Tavily API rate limit exceeded (429)"),
               SearchErr("Tavily API error (500)")}

\* response.error.includes('API key') || response.error.includes('rate limit')
StopsSearch(err) ==
    err \in {"Invalid Tavily API key (401)", "Tavily API rate limit exceeded (429)"}

SearchState(urls, lastError, stopped, returned) ==
    [urls |-> urls, lastError |-> lastError, stopped |-> stopped,
     returned |-> returned]

\* Phase 1 loop of runMultipleSearches: a stopping error returns that
\* call's response at once
RECURSIVE Phase1(_, _)
Phase1(calls, st) ==
    IF calls = <<>> \/ st.returned THEN st
    ELSE LET r == Head(calls)
         IN IF r.error # "none" /\ r.urls = {}
            THEN IF StopsSearch(r.error)
                 THEN SearchState({}, r.error, TRUE, TRUE)
                 ELSE Phase1(Tail(calls), SearchState(st.urls, r.error, FALSE, FALSE))
            ELSE Phase1(Tail(calls),
                        SearchState(st.urls \cup r.urls, st.lastError, FALSE, FALSE))

\* Phase 2 loop: a stopping error breaks out of the loop
RECURSIVE Phase2(_, _)
Phase2(calls, st) ==
    IF calls = <<>> \/ st.stopped THEN st
    ELSE LET r == Head(calls)
         IN IF r.error # "none" /\ r.urls = {}
            THEN Phase2(Tail(calls),
                        SearchState(st.urls, r.error, StopsSearch(r.error), FALSE))
            ELSE Phase2(Tail(calls),
                        SearchState(st.urls \cup r.urls, st.lastError, FALSE, FALSE))

\* the tavilySearch calls a loop issues: those up to the first that fails
\* with a stopping error, that one included
RECURSIVE RequestsMade(_)
RequestsMade(calls) ==
    IF calls = <<>> THEN 0
    ELSE IF Head(calls).error # "none" /\ Head(calls).urls = {}
            /\ StopsSearch(Head(calls).error)
    THEN 1
    ELSE 1 + RequestsMade(Tail(calls))

\* runMultipleSearches(queries): calls1 are the answers to the first two
\* queries on the product domains, calls2 the answers to all queries
runMultipleSearches(calls1, calls2) ==
    LET s1 == Phase1(calls1, SearchState({}, "none", FALSE, FALSE))
        s2 == IF s1.returned THEN s1 ELSE Phase2(calls2, s1)
    IN IF s1.returned
       THEN [error |-> s1.lastError, results |-> 0,
             requests |-> RequestsMade(calls1)]
       ELSE [error |-> IF s2.urls = {} THEN s2.lastError ELSE "none",
             results |-> Cardinality(s2.urls),
             requests |-> Len(calls1) + RequestsMade(calls2)]

Min(a, b) == IF a <= b THEN a ELSE b

\* every answer runMultipleSearches can give for nq queries
SearchResponses(e, nq) ==
    {runMultipleSearches(c1, c2) :
        c1 \in SeqsOfLen(tavilySearch(e), Min(nq, 2)),
        c2 \in SeqsOfLen(tavilySearch(e), nq)}

AgentState(at, n, q, errors, attempt) ==
    [at |-> at, n |-> n, q |-> q, errors |-> errors, attempt |-> attempt]

NoQueries == [n |-> 0, diversity |-> 0]

Idle == AgentState("idle", 0, NoQueries, <<>>, 0)
Returned == AgentState("returned", 0, NoQueries, <<>>, 0)

\* what an agent run did: how its search ended, how many raw results it
\* found, how its model analysis ended ("none": never invoked)
Trace(search, found, analysis) ==
    [search |-> search, found |-> found, analysis |-> analysis,
     attempts |-> 0, thrown |-> "none"]

\* the same for a search that withRetry gave up: the invocations of the
\* wrapped function it made, and the error the last one threw; a search
\* that returned is recorded by Trace
RetriedTrace(search, found, attempts, thrown) ==
    IF thrown = "none" THEN Trace(search, found, "none")
    ELSE [Trace(search, found, "none") EXCEPT !.attempts = attempts,
                                               !.thrown = thrown]

\* the catch block of runWebSearchAgent
WebCaught(msg) ==
    NoveltyResult(FALSE, <<>>, ZeroTruth, "Error during web search analysis: " \o msg)

WebSearchFailed(err) ==
    NoveltyResult(FALSE, <<>>, ZeroTruth, "Search failed: " \o err)

WebNoResults ==
    NoveltyResult(TRUE, <<>>, Truth(7000, 6000, 4000, 5000),
                  "No similar products found in web search.")

\* the result built from a parsed analysis: a missing analyzed_findings
\* list makes .find raise, which the catch block turns into a failure
WebAnalysed(a) ==
    IF ~a.parsed THEN WebCaught("JSON syntax error")
    ELSE IF ~a.hasList THEN WebCaught("TypeError")
    ELSE NoveltyResult(a.is_novel,
                       Slice(SortDesc(Scored(a.scores, 30)), TopFindings),
                       a.truth_scores, "analysis summary")

\* runWebSearchAgent, Phase 1
WebSearch ==
    /\ pc = "agents" /\ agent["web"].at = "search"
    /\ \E nq \in 0..MaxQueries : \E sr \in SearchResponses(env, nq) :
         IF sr.error # "none" /\ sr.results = 0
         THEN /\ results' = [results EXCEPT !["web"] = WebSearchFailed(sr.error)]
              /\ agent' = [agent EXCEPT !["web"] = Returned]
              /\ trace' = [trace EXCEPT !["web"] =
                     RetriedTrace("failed", 0, sr.requests, sr.error)]
         ELSE IF sr.results = 0
         THEN /\ results' = [results EXCEPT !["web"] = WebNoResults]
              /\ agent' = [agent EXCEPT !["web"] = Returned]
              /\ trace' = [trace EXCEPT !["web"] =
                               Trace(IF nq = 0 THEN "no_request" ELSE "ok", 0, "none")]
         ELSE /\ agent' = [agent EXCEPT !["web"] =
                               AgentState("analyse", sr.results, NoQueries, <<>>, 0)]
              /\ trace' = [trace EXCEPT !["web"] = Trace("ok", sr.results, "none")]
              /\ UNCHANGED results
    /\ UNCHANGED <<env, pc, response, ai_memory, libVars>>

\* runWebSearchAgent, Phase 2
WebAnalyse ==
    /\ pc = "agents" /\ agent["web"].at = "analyse"
    /\ \E comp \in Completions(env) :
         IF ~comp.ok
         THEN /\ results' = [results EXCEPT !["web"] = WebCaught(comp.error)]
              /\ trace' = [trace EXCEPT !["web"].analysis = "raised"]
         ELSE \E a \in AnalysisTexts(agent["web"].n) :
              /\ results' = [results EXCEPT !["web"] = WebAnalysed(a)]
              /\ trace' = [trace EXCEPT !["web"].analysis =
                               IF a.parsed THEN "parsed" ELSE "unparseable"]
    /\ agent' = [agent EXCEPT !["web"] = Returned]
    /\ UNCHANGED <<env, pc, response, ai_memory, libVars>>

(***************************************************************************)
(* Retail channel (lib/ai/retail-search-agent.ts; the eBay client          *)
(* lib/search/ebay.ts is modelled from the design document)                *)
(***************************************************************************)
isEbayConfigured(e) == e.ebay

\* the client reports its outcome as a value: products, or an error
searchSimilarProducts ==
    {[success |-> TRUE, products |-> n] : n \in 0..MaxResults}
    \cup {[success |-> FALSE, products |-> 0]}

\* anthropic.messages.create on the agent's own client: no fallback
anthropicMessagesCreate(e) ==
    IF e.anthropic THEN PrimaryOutcomes ELSE {"authentication_error"}

RetailNotConfigured ==
    NoveltyResult(TRUE, <<>>, ZeroTruth,
        "Retail search skipped: eBay API not configured. To enable retail product search, add EBAY_CLIENT_ID and EBAY_CLIENT_SECRET environment variables.")

RetailSearchFailed == NoveltyResult(FALSE, <<>>, ZeroTruth, "eBay API error")

RetailNoResults ==
    NoveltyResult(TRUE, <<>>, Truth(8000, 7000, 5000, 8000),
                  "No similar products found on eBay")

\* ebayProductToFinding: similarity_score 0 until the analysis scores it
Unscored(n) == [i \in 1..n |-> Absent]

\* the catch block of Phase 2
RetailUnanalysed(n) ==
    NoveltyResult(FALSE, Scored(Unscored(n), 0), Truth(6000, 5000, 4000, 5000),
                  "Found potentially similar products on eBay, but analysis failed. Manual review recommended.")

RetailAnalysed(a, n) ==
    IF ~a.parsed THEN RetailUnanalysed(n)
    ELSE NoveltyResult(a.is_novel,
                       SortDesc(Scored(IF a.hasList THEN a.scores ELSE Unscored(n), 0)),
                       a.truth_scores, "analysis summary")

\* runRetailSearchAgent, Phase 1
RetailSearch ==
    /\ pc = "agents" /\ agent["retail"].at = "search"
    /\ agent["web"].at = "returned"
    /\ IF ~isEbayConfigured(env)
       THEN /\ results' = [results EXCEPT !["retail"] = RetailNotConfigured]
            /\ agent' = [agent EXCEPT !["retail"] = Returned]
            /\ trace' = [trace EXCEPT !["retail"] = Trace("not_configured", 0, "none")]
       ELSE \E ebayResult \in searchSimilarProducts :
            IF ~ebayResult.success
            THEN /\ results' = [results EXCEPT !["retail"] = RetailSearchFailed]
                 /\ agent' = [agent EXCEPT !["retail"] = Returned]
                 /\ trace' = [trace EXCEPT !["retail"] = Trace("failed", 0, "none")]
            ELSE IF ebayResult.products = 0
            THEN /\ results' = [results EXCEPT !["retail"] = RetailNoResults]
                 /\ agent' = [agent EXCEPT !["retail"] = Returned]
                 /\ trace' = [trace EXCEPT !["retail"] = Trace("ok", 0, "none")]
            ELSE /\ agent' = [agent EXCEPT !["retail"] =
                                  AgentState("analyse", ebayResult.products,
                                             NoQueries, <<>>, 0)]
                 /\ trace' = [trace EXCEPT !["retail"] =
                                  Trace("ok", ebayResult.products, "none")]
                 /\ UNCHANGED results
    /\ UNCHANGED <<env, pc, response, ai_memory, libVars>>

\* runRetailSearchAgent, Phase 2
RetailAnalyse ==
    /\ pc = "agents" /\ agent["retail"].at = "analyse"
    /\ LET n == agent["retail"].n
       IN \E out \in anthropicMessagesCreate(env) :
            IF out # "ok"
            THEN /\ results' = [results EXCEPT !["retail"] = RetailUnanalysed(n)]
                 /\ trace' = [trace EXCEPT !["retail"].analysis = "raised"]
            ELSE \E a \in AnalysisTexts(n) :
                 /\ results' = [results EXCEPT !["retail"] = RetailAnalysed(a, n)]
                 /\ trace' = [trace EXCEPT !["retail"].analysis =
                                  IF a.parsed THEN "parsed" ELSE "unparseable"]
    /\ agent' = [agent EXCEPT !["retail"] = Returned]
    /\ UNCHANGED <<env, pc, response, ai_memory, libVars>>

(***************************************************************************)
(* Patent channel (lib/search/uspto.ts, lib/search/retry.ts,               *)
(* lib/ai/patent-search-agent.ts)                                          *)
(***************************************************************************)
PVNoKey == "PATENTSVIEW_API_KEY not configured. Request at https://patentsview.org/apis/keyrequest"
PVAuth == "PatentsView API authentication failed. Check PATENTSVIEW_API_KEY."
PVRate == "PatentsView API rate limit exceeded (45/min). Please wait."
PV400 == "PatentsView API error 400"
PV500 == "PatentsView API error 500"

\* e.includes('PATENTSVIEW_API_KEY')
MentionsKey(msg) == msg \in {PVNoKey, PVAuth}

\* further messages an Error handed to the classifiers may carry
Msg401 == "401 Unauthorized"
Msg403Timeout == "Request failed with status 403 after network timeout"
Msg400Generate == "400 Bad Request: could not generate query"
Msg404 == "404 Not Found"

\* 5xx, network/timeout, 429 or 'rate limit' in the message
isRetryableError(msg) == msg \in {PVRate, PV500, Msg403Timeout}

\* 401/403, unauthorized/forbidden, or 400 without 'rate' in the message
\* ('generate' contains 'rate')
isNonRetryableError(msg) == msg \in {PV400, Msg401, Msg403Timeout}

\* '500', 'Internal Server Error', '400', 'error' or 'failed' in the message
IsApiError(msg) == msg \in {PVAuth, PV400, PV500}

PatentNumbers == 1..MaxResults

\* one PatentsViewClient.searchPatents call
searchPatents ==
    {[error |-> "none", patents |-> ps] : ps \in SUBSET PatentNumbers}
    \cup {[error |-> m, patents |-> {}] : m \in {PVAuth, PVRate, PV400, PV500}}

MaxSearched == 5    \* queries.slice(0, 5)

RECURSIVE ErrorsOf(_)
ErrorsOf(calls) ==
    IF calls = <<>> THEN <<>>
    ELSE (IF Head(calls).error = "none" THEN <<>> ELSE <<Head(calls).error>>)
         \o ErrorsOf(Tail(calls))

\* searchPatentsViewWithQueries, given the answers to its calls
searchPatentsViewWithQueries(e, calls) ==
    IF ~e.patentsview THEN [patents |-> {}, errors |-> <<PVNoKey>>]
    ELSE [patents |-> UNION {calls[i].patents : i \in 1..Len(calls)},
          errors |-> ErrorsOf(calls)]

\* the answers one searchPatentsViewWithQueries run can get for nq queries
PatentsViewCalls(e, nq) ==
    IF ~e.patentsview THEN {<<>>}
    ELSE SeqsOfLen(searchPatents, Min(nq, MaxSearched))

\* the error the function wrapped by withRetry throws, "none" if it returns
Thrown(r) ==
    IF \E i \in 1..Len(r.errors) : MentionsKey(r.errors[i]) THEN r.errors[1]
    ELSE IF Len(r.errors) > 0 /\ r.patents = {} THEN r.errors[1]
    ELSE "none"

PatentAttempts == 2     \* maxAttempts of the PatentsView search

\* withRetry's catch block, with retryOn = isRetryableError
RetryDecision(msg, attempt, maxAttempts) ==
    IF isNonRetryableError(msg) THEN "break"
    ELSE IF attempt < maxAttempts /\ isRetryableError(msg) THEN "retry"
    ELSE IF ~isRetryableError(msg) THEN "break"
    ELSE "exhausted"

QuerySet(n, diversity, wellFormed) ==
    [n |-> n, diversity |-> diversity, wellFormed |-> wellFormed]

\* generatePatentSearchQueries: the model's query lists, or the keyword
\* fallback (at most the first two keywords as function queries) when
\* the completion raises or its text does not parse
PatentQuerySets(e) ==
    {QuerySet(n, IF n > 0 THEN 1 ELSE 0, TRUE) : n \in 0..MaxQueries}
    \cup IF \E comp \in Completions(e) : comp.ok
         THEN {QuerySet(n, d, TRUE) : n \in 1..MaxQueries, d \in {1, 4}}
              \cup {QuerySet(0, 0, TRUE), QuerySet(0, 0, FALSE)}
         ELSE {}

PatentCaught(msg) ==
    NoveltyResult(FALSE, <<>>, ZeroTruth, "Error during patent search: " \o msg)

PatentNotConfigured ==
    NoveltyResult(FALSE, <<>>, ZeroTruth,
        "PATENTSVIEW_API_KEY not configured. Please add it to your environment variables.")

PatentApiErrors ==
    NoveltyResult(FALSE, <<>>, Truth(0, 2000, 0, 0),
                  "Patent search encountered errors. Unable to complete patent search.")

\* x * errorPenalty, errorPenalty = 1 - 0.3 * errors / max(2 * queries, 1)
Penalised(x, errors, nq) ==
    LET d == IF 2 * nq > 1 THEN 2 * nq ELSE 1
    IN IF errors = 0 THEN x ELSE (x * (10 * d - 3 * errors)) \div (10 * d)

\* variant: the PTAB-only scores where PatentsView gave no data
PatentTruth_PtabFloor(hasPatentsViewData, errors, q) ==
    IF hasPatentsViewData
    THEN Truth(Penalised(9500, errors, q.n), Penalised(9000, errors, q.n),
               Penalised(8500, errors, q.n),
               Penalised((9000 * q.diversity) \div 4, errors, q.n))
    ELSE Truth(6000, 5000, 2500, 0)

\* truthScores of runPatentSearchAgent (PTAB disabled: hasPTABData false)
PatentTruth(hasPatentsViewData, errors, q) ==
    IF hasPatentsViewData
    THEN Truth(Penalised(9500, errors, q.n), Penalised(9000, errors, q.n),
               Penalised(8500, errors, q.n),
               Penalised((9000 * q.diversity) \div 4, errors, q.n))
    ELSE ZeroTruth

\* buildSummary: the model's summary and the data-source sentence
buildSummary(patentCount, hasPatentsViewData) ==
    IF patentCount > 0 THEN "analysis summary. Based on real patents from USPTO PatentsView."
    ELSE IF hasPatentsViewData
    THEN "analysis summary. No matching patents found in USPTO database (comprehensive search completed)."
    ELSE "analysis summary. No patent data retrieved."

PatentAnalysed(a, st) ==
    IF ~a.parsed THEN PatentCaught("JSON syntax error")
    ELSE NoveltyResult(a.is_novel,
             Slice(SortDesc(Scored(IF a.hasList THEN a.scores ELSE Unscored(st.n), 50)),
                   TopFindings),
             PatentTruth(st.n > 0, Len(st.errors), st.q),
             buildSummary(st.n, st.n > 0))

\* the patent analysis JSON carries no truth_scores (AnalysisResult)
PatentAnalysisTexts(n) ==
    {a \in AnalysisTexts(n) : a.truth_scores = UndefinedTruth}

\* fetchPatents: query generation; a query set lacking one of its lists
\* makes fetchPatents raise into the agent's catch block
PatentQueries ==
    /\ pc = "agents" /\ agent["patent"].at = "queries"
    /\ agent["retail"].at = "returned"
    /\ \E q \in PatentQuerySets(env) :
         IF ~q.wellFormed
         THEN /\ results' = [results EXCEPT !["patent"] = PatentCaught("TypeError")]
              /\ agent' = [agent EXCEPT !["patent"] = Returned]
         ELSE /\ agent' = [agent EXCEPT !["patent"] =
                               AgentState("search", 0, [n |-> q.n, diversity |-> q.diversity],
                                          <<>>, 1)]
              /\ UNCHANGED results
    /\ UNCHANGED <<env, pc, trace, response, ai_memory, libVars>>

\* what runPatentSearchAgent does with the outcome of fetchPatents
PatentFetched(n, errors, searched, thrown) ==
    LET apiErrors == {i \in 1..Len(errors) : IsApiError(errors[i])}
    IN IF \E i \in 1..Len(errors) : MentionsKey(errors[i])
       THEN /\ results' = [results EXCEPT !["patent"] = PatentNotConfigured]
            /\ agent' = [agent EXCEPT !["patent"] = Returned]
            /\ trace' = [trace EXCEPT !["patent"] =
                   RetriedTrace(searched, n, agent["patent"].attempt, thrown)]
       ELSE IF n = 0 /\ apiErrors # {}
       THEN /\ results' = [results EXCEPT !["patent"] = PatentApiErrors]
            /\ agent' = [agent EXCEPT !["patent"] = Returned]
            /\ trace' = [trace EXCEPT !["patent"] =
                   RetriedTrace(searched, n, agent["patent"].attempt, thrown)]
       ELSE /\ agent' = [agent EXCEPT !["patent"] =
                             AgentState("analyse", n, agent["patent"].q, errors, 0)]
            /\ trace' = [trace EXCEPT !["patent"] =
                   RetriedTrace(searched, n, agent["patent"].attempt, thrown)]
            /\ UNCHANGED results

\* fetchPatents: one attempt of the PatentsView search under withRetry
PatentSearch ==
    /\ pc = "agents" /\ agent["patent"].at = "search"
    /\ LET st == agent["patent"]
       IN \E calls \in PatentsViewCalls(env, st.q.n) :
            LET r == searchPatentsViewWithQueries(env, calls)
                err == Thrown(r)
            IN IF err = "none"
               THEN PatentFetched(Cardinality(r.patents), r.errors,
                                  IF st.q.n = 0 THEN "no_request" ELSE "ok",
                                  "none")
               ELSE IF RetryDecision(err, st.attempt, PatentAttempts) = "retry"
               THEN /\ agent' = [agent EXCEPT !["patent"].attempt = st.attempt + 1]
                    /\ UNCHANGED <<results, trace>>
               ELSE PatentFetched(0, IF MentionsKey(err) THEN <<>> ELSE <<err>>,
                                  IF env.patentsview THEN "failed" ELSE "not_configured",
                                  err)
    /\ UNCHANGED <<env, pc, response, ai_memory, libVars>>

\* runPatentSearchAgent, Phase 2
PatentAnalyse ==
    /\ pc = "agents" /\ agent["patent"].at = "analyse"
    /\ \E comp \in Completions(env) :
         IF ~comp.ok
         THEN /\ results' = [results EXCEPT !["patent"] = PatentCaught(comp.error)]
              /\ trace' = [trace EXCEPT !["patent"].analysis = "raised"]
         ELSE \E a \in PatentAnalysisTexts(agent["patent"].n) :
              /\ results' = [results EXCEPT !["patent"] =
                                 PatentAnalysed(a, agent["patent"])]
              /\ trace' = [trace EXCEPT !["patent"].analysis =
                               IF a.parsed THEN "parsed" ELSE "unparseable"]
    /\ agent' = [agent EXCEPT !["patent"] = Returned]
    /\ UNCHANGED <<env, pc, response, ai_memory, libVars>>

(***************************************************************************)
(* The request handler (app/api/novelty-check/route.ts)                    *)
(***************************************************************************)
Environments ==
    [anthropic : BOOLEAN, openai : BOOLEAN, tavily : BOOLEAN,
     ebay : BOOLEAN, patentsview : BOOLEAN]

Started ==
    [c \in Channels |->
        AgentState(IF c = "patent" THEN "queries" ELSE "search",
                   0, NoQueries, <<>>, 0)]

\* POST up to the Promise.all: authentication, body, validation
POSTBegin ==
    /\ pc = "start"
    /\ \E user \in BOOLEAN, body \in {"valid", "missing_fields", "not_json"} :
         IF ~user
         THEN /\ response' = ErrorResponse(401) /\ pc' = "done"
              /\ UNCHANGED agent
         ELSE IF body = "not_json"
         THEN /\ response' = ErrorResponse(500) /\ pc' = "done"
              /\ UNCHANGED agent
         ELSE IF body = "missing_fields"
         THEN /\ response' = ErrorResponse(400) /\ pc' = "done"
              /\ UNCHANGED agent
         ELSE /\ pc' = "agents" /\ agent' = Started
              /\ UNCHANGED response
    /\ UNCHANGED <<env, results, trace, ai_memory, libVars>>

\* Promise.all resolves once the three agents have returned
POSTAwait ==
    /\ pc = "agents"
    /\ \A c \in Channels : agent[c].at = "returned"
    /\ pc' = "aggregate"
    /\ UNCHANGED <<env, agent, results, trace, response, ai_memory, libVars>>

Init ==
    /\ env \in Environments
    /\ pc = "start"
    /\ agent = [c \in Channels |-> Idle]
    /\ results = [c \in Channels |-> NoResult]
    /\ trace = [c \in Channels |-> Trace("none", 0, "none")]
    /\ response = NoResponse
    /\ ai_memory = NoMemory
    /\ LibIdle

Next ==
    \/ POSTBegin
    \/ WebSearch
    \/ WebAnalyse
    \/ RetailSearch
    \/ RetailAnalyse
    \/ PatentQueries
    \/ PatentSearch
    \/ PatentAnalyse
    \/ POSTAwait
    \/ POSTAggregate

Spec == Init /\ [][Next]_vars

(***************************************************************************)
(* Properties of the aggregator                                            *)
(***************************************************************************)
\* a NoveltyCheckResponse was produced
Produced == pc = "done" /\ response.status = 200

\* the similarity scores of all findings of all three results
SimSet ==
    UNION {{results[c].findings[i] : i \in 1..Len(results[c].findings)} :
           c \in Channels}

MaxSim == IF SimSet = {} THEN 0 ELSE CHOOSE m \in SimSet : \A x \in SimSet : x <= m

SomeChannelFailed == \E c \in Channels : results[c].truth_scores.completeness = 0

C3_AllSucceededRisk ==
    (Produced /\ ~SomeChannelFailed /\ MaxSim < 80) =>
        response.risk_level = IF MaxSim >= 50 THEN "moderate_risk" ELSE "low_risk"

C3_Witness ==
    /\ Produced /\ ~SomeChannelFailed
    /\ SimSet = {}
    /\ \E c \in Channels : ~results[c].is_novel
    /\ response.risk_level = "low_risk"

\* the channel score as the claim states it
StatedScore(c) ==
    LET r == results[c]
        sims == {r.findings[i] : i \in 1..Len(r.findings)}
    IN IF r.truth_scores.completeness = 0 THEN 50
       ELSE IF r.is_novel THEN 100
       ELSE IF sims = {} THEN 100
       ELSE 100 - (CHOOSE m \in sims : \A x \in sims : x <= m)

Ran == pc = "done" /\ \A c \in Channels : agent[c].at = "returned"

\* the channel's search was carried out without error and found nothing
SearchedClean(c) == trace[c].search = "ok" /\ trace[c].found = 0

\* C5: when the search of each of the three channels succeeds and finds
\* nothing, every channel result has completeness > 0 and is_novel true,
\* and the response has risk_level low_risk and overall score 1.0.
C5_ZeroFindingsLowRisk ==
    (Ran /\ \A c \in Channels : SearchedClean(c)) =>
        /\ \A c \in Channels :
              results[c].truth_scores.completeness > 0 /\ results[c].is_novel
        /\ response.status = 200
        /\ response.risk_level = "low_risk"
        /\ response.overall_novelty_score = 1000

C5_Witness ==
    /\ Ran /\ \A c \in Channels : SearchedClean(c)
    /\ trace["patent"].analysis = "parsed"
    /\ results["web"].truth_scores.completeness > 0
    /\ results["retail"].truth_scores.completeness > 0
    /\ results["patent"].truth_scores.completeness = 0
    /\ response.risk_level = "incomplete"
    /\ response.overall_novelty_score = 800

\* Phase 1 of the channel found results and Phase 2 then failed: the
\* completion raised, or its text was not parseable JSON
Phase2Failed(c) ==
    /\ agent[c].at = "returned"
    /\ trace[c].found > 0
    /\ trace[c].analysis \in {"raised", "unparseable"}

\* C6: in every agent, when Phase 2 fails after Phase 1 found results, the
\* agent returns those results unscored with completeness > 0, never the
\* completeness = 0 sentinel with an empty finding list.
C6_Phase2FailureKeepsFindings ==
    \A c \in Channels :
        Phase2Failed(c) =>
            /\ Len(results[c].findings) = trace[c].found
            /\ results[c].truth_scores.completeness > 0

C6_Witness ==
    /\ Phase2Failed("web")
    /\ results["web"].findings = <<>>
    /\ results["web"].truth_scores.completeness = 0

\* C7: whatever happens inside the agents, each hands the aggregator a
\* NoveltyResult and the response is produced from the three results.
C7_ErrorsContained ==
    Ran =>
        /\ \A c \in Channels : results[c].truth_scores.defined
        /\ response = NoveltyCheckResponse(results["web"], results["retail"],
                                           results["patent"])

C7_Witness ==
    /\ Ran
    /\ trace["web"].analysis = "parsed"
    /\ ~results["web"].truth_scores.defined
    /\ results["retail"].truth_scores.defined
    /\ results["patent"].truth_scores.defined
    /\ response.status = 500

\* whether the channel's credentials are present
Configured(c) ==
    IF c = "web" THEN env.tavily
    ELSE IF c = "retail" THEN env.ebay
    ELSE env.patentsview

\* the summaries that name a missing credential
NotConfiguredSummaries ==
    {WebSearchFailed(TavilyNoKey).summary, RetailNotConfigured.summary,
     PatentNotConfigured.summary}

\* C8: an agent whose channel credentials are absent returns without
\* invoking the model analysis, with empty findings, all four truth scores
\* 0 and a summary naming the missing configuration.
C8_NotConfiguredShortCircuit ==
    \A c \in Channels :
        (agent[c].at = "returned" /\ ~Configured(c)) =>
            /\ trace[c].analysis = "none"
            /\ results[c].findings = <<>>
            /\ results[c].truth_scores = ZeroTruth
            /\ results[c].summary \in NotConfiguredSummaries

C8_Witness ==
    /\ agent["patent"].at = "returned" /\ ~env.patentsview
    /\ trace["patent"].search = "not_configured"
    /\ trace["patent"].analysis = "parsed"
    /\ results["patent"].summary = buildSummary(0, FALSE)

\* C9: with the patent credentials missing and the web and retail searches
\* succeeding with no findings, the patent result has completeness 0 and
\* the response's risk_level is incomplete.
C9_PatentUnconfiguredIncomplete ==
    (Ran /\ ~env.patentsview /\ SearchedClean("web") /\ SearchedClean("retail")) =>
        /\ results["patent"].truth_scores.completeness = 0
        /\ response.status = 200
        /\ response.risk_level = "incomplete"

C9_Witness ==
    /\ Ran /\ ~env.patentsview
    /\ SearchedClean("web") /\ SearchedClean("retail")
    /\ trace["patent"].search = "not_configured"
    /\ results["patent"].truth_scores.completeness = 0
    /\ response.risk_level = "incomplete"

\* C10: with no AI provider configured a novelty check ends in an error,
\* not in a NoveltyCheckResponse.
C10_NoProviderRaises ==
    (Ran /\ ~env.anthropic /\ ~env.openai) => response.status = 500

C10_Witness ==
    /\ Ran /\ ~env.anthropic /\ ~env.openai
    /\ trace["web"].analysis = "raised"
    /\ results["web"].summary = WebCaught(ConfigError).summary
    /\ response.status = 200


(***************************************************************************)
(* createCompletion step by step (specification SpecGateway)               *)
(***************************************************************************)
\* the handler's variables while a library component is checked alone
HandlerIdle ==
    /\ pc = "unused" /\ agent = "unused" /\ results = "unused"
    /\ trace = "unused" /\ response = "unused" /\ ai_memory = NoMemory

\* model names a caller may pass: the table's keys and one outside it
RequestedModels == AnthropicModels \cup {"claude-other"}

\* getAnthropicClient() / getOpenAIClient(): null without the API key
getAnthropicClient(e) == e.anthropic
getOpenAIClient(e) == e.openai

Call(provider, model) == [provider |-> provider, model |-> model]

Gateway(at, model, calls, primaryError, error, provider) ==
    [at |-> at, model |-> model, calls |-> calls,
     primaryError |-> primaryError, error |-> error, provider |-> provider]

\* variant: every primary error falls back
FallsBack_Always(err) == TRUE

\* the classifier as createCompletion's catch block applies it
FallsBack(err) == shouldFallback(err)

\* variant: a client is there whatever the environment
getAnthropicClient_Always(e) == TRUE

\* the primary client createCompletion obtains
PrimaryClient(e) == getAnthropicClient(e)

\* entry: options are read, the primary client is looked up
GatewayBegin ==
    /\ gateway.at = "idle"
    /\ \E model \in RequestedModels :
         gateway' = Gateway(IF PrimaryClient(env) THEN "primary" ELSE "fallback",
                            model, <<>>, "none", "none", "none")
    /\ UNCHANGED <<pipelineVars, notGateway>>

\* anthropic.messages.create and the catch block around it
GatewayPrimary ==
    /\ gateway.at = "primary"
    /\ \E p1 \in PrimaryOutcomes :
         LET calls == Append(gateway.calls, Call("anthropic", gateway.model))
         IN IF p1 = "ok"
            THEN gateway' = Gateway("returned", gateway.model, calls, "none",
                                    "none", "anthropic")
            ELSE IF ~FallsBack(p1)
            THEN gateway' = Gateway("raised", gateway.model, calls, p1, p1, "none")
            ELSE gateway' = Gateway("fallback", gateway.model, calls, p1, "none", "none")
    /\ UNCHANGED <<pipelineVars, notGateway>>

\* the secondary client is looked up
GatewayFallback ==
    /\ gateway.at = "fallback"
    /\ IF ~getOpenAIClient(env)
       THEN gateway' = [gateway EXCEPT !.at = "raised", !.error = ConfigError]
       ELSE gateway' = [gateway EXCEPT !.at = "secondary"]
    /\ UNCHANGED <<pipelineVars, notGateway>>

\* openai.chat.completions.create; an empty text raises as well
GatewaySecondary ==
    /\ gateway.at = "secondary"
    /\ \E p2 \in SecondaryOutcomes :
         LET calls == Append(gateway.calls,
                             Call("openai", MODEL_MAPPING(gateway.model)))
         IN IF p2 = "ok"
            THEN gateway' = [gateway EXCEPT !.at = "returned", !.calls = calls,
                                            !.provider = "openai"]
            ELSE gateway' = [gateway EXCEPT !.at = "raised", !.calls = calls,
                                            !.error = "openai_error"]
    /\ UNCHANGED <<pipelineVars, notGateway>>

InitGateway ==
    /\ env \in {e \in Environments : e.tavily /\ e.ebay /\ e.patentsview}
    /\ HandlerIdle
    /\ gateway = Gateway("idle", "none", <<>>, "none", "none", "none")
    /\ expansion = "unused" /\ retry = "unused" /\ cache = "unused"
    /\ limiter = "unused"
    /\ handoff = "unused" /\ merged = "unused" /\ signup = "unused"
    /\ searches = "unused"

NextGateway ==
    \/ GatewayBegin
    \/ GatewayPrimary
    \/ GatewayFallback
    \/ GatewaySecondary

SpecGateway == InitGateway /\ [][NextGateway]_vars

\* the call has ended
GatewayDone == gateway.at \in {"returned", "raised"}

\* the secondary provider was called, second, with the mapped model name
SecondaryCalled ==
    /\ Len(gateway.calls) = 2
    /\ gateway.calls[2].provider = "openai"
    /\ gateway.calls[2].model =
         (IF gateway.model = "claude-3-haiku-20240307" THEN "gpt-4o-mini"
          ELSE IF gateway.model = "claude-other" THEN "gpt-4o-mini"
          ELSE "gpt-4o")

NoSecondaryCall ==
    \A i \in 1..Len(gateway.calls) : gateway.calls[i].provider # "openai"

FallbackClass == {"rate_limit", "credit", "overloaded", "invalid_request_400"}

\* the primary call raised an error outside the fallback classes
PrimaryRaisedOther ==
    gateway.primaryError \notin FallbackClass \cup {"none"}

\* C11 as stated: after a primary error of a fallback class the secondary
\* provider is called with the mapped model before any error is raised;
\* after any other primary error that error is raised at once and the
\* secondary provider is never called.
C11_FallbackAsStated ==
    /\ (gateway.at = "raised" /\ gateway.primaryError \in FallbackClass)
          => SecondaryCalled
    /\ PrimaryRaisedOther =>
          /\ gateway.at = "raised" /\ gateway.error = gateway.primaryError
          /\ NoSecondaryCall

\* C11 amended: the same, where the secondary provider is configured; where
\* it is not, no secondary call is made and the call ends in an error.
C11_FallbackWhenSecondaryConfigured ==
    /\ (GatewayDone /\ gateway.primaryError \in FallbackClass) =>
          IF env.openai THEN SecondaryCalled
          ELSE gateway.at = "raised" /\ NoSecondaryCall
    /\ PrimaryRaisedOther =>
          /\ gateway.at = "raised" /\ gateway.error = gateway.primaryError
          /\ NoSecondaryCall

C11_Witness ==
    /\ gateway.at = "raised" /\ gateway.primaryError = "rate_limit"
    /\ gateway.model = "claude-3-5-sonnet-20241022"
    /\ gateway.calls = <<Call("anthropic", "claude-3-5-sonnet-20241022"),
                         Call("openai", "gpt-4o")>>
    /\ gateway.error = "openai_error"

\* C12: with neither provider configured createCompletion makes no
\* provider call and raises the configuration error naming both keys.
C12_NoProviderConfigError ==
    (~env.anthropic /\ ~env.openai /\ gateway.at \notin {"idle", "fallback"}) =>
        /\ gateway.at = "raised"
        /\ gateway.calls = <<>>
        /\ gateway.error =
             "Both Anthropic and OpenAI are unavailable. Check API keys: ANTHROPIC_API_KEY and OPENAI_API_KEY"

C12_Witness ==
    /\ ~env.anthropic /\ ~env.openai
    /\ gateway.at = "raised" /\ gateway.calls = <<>>
    /\ gateway.error = ConfigError


(***************************************************************************)
(* expandInvention (lib/ai/expand-invention.ts), specification SpecExpand  *)
(* Lists are modelled by their lengths.                                    *)
(***************************************************************************)
MaxListLen == 6     \* longest list in a request or in the model's JSON

ListCap == 5        \* slice(0, 5)
RetailFromWeb == 3  \* web_queries.slice(0, 3)

NotAList == 0 - 2   \* a field whose value has no slice method

\* a list field of the parsed JSON: absent, not a list, or a list that is
\* empty, longer than the retail default, or longer than the cap
ParsedLists == {0, RetailFromWeb + 1, MaxListLen} \cup {Absent, NotAList}

\* request.key_features: optional, of any length
RequestFeatures == (0..MaxListLen) \cup {Absent}

ExpansionText(parsed, description, kf, web, retail, patent, extras) ==
    [parsed |-> parsed, expanded_description |-> description,
     key_features |-> kf, web_queries |-> web, retail_queries |-> retail,
     patent_queries |-> patent, extras |-> extras]

\* what JSON.parse makes of the completion text; extras stands for
\* product_category and differentiators being given
ExpansionTexts ==
    {ExpansionText(FALSE, "absent", Absent, Absent, Absent, Absent, FALSE)}
    \cup {ExpansionText(TRUE, d, kf, web, retail, patent, x) :
            d \in {"absent", "empty", "text"},
            kf \in ParsedLists, web \in ParsedLists,
            retail \in ParsedLists, patent \in ParsedLists, x \in BOOLEAN}

Expansion(source, description, kf, category, diffs, web, retail, patent) ==
    [source |-> source, expanded_description |-> description,
     key_features |-> kf, product_category |-> category,
     differentiators |-> diffs, web_queries |-> web,
     retail_queries |-> retail, patent_queries |-> patent]

\* createFallbackExpansion
createFallbackExpansion(kf) ==
    Expansion("fallback", "request.description",
              IF kf = Absent THEN 0 ELSE kf, "General", 0, 2, 2, 1)

\* variant: the failure is passed on to the caller
OnFailure_Raise(kf) == [at |-> "raised", result |-> "none"]

\* the catch block of expandInvention
OnFailure(kf) == [at |-> "returned", result |-> createFallbackExpansion(kf)]

\* the validation: !expanded_description || !key_features || !web_queries
MissingRequired(t) ==
    \/ t.expanded_description \in {"absent", "empty"}
    \/ t.key_features = Absent
    \/ t.web_queries = Absent

\* building the returned object raises a TypeError on a non-list value
SliceRaises(t) ==
    \/ t.key_features = NotAList
    \/ t.web_queries = NotAList
    \/ t.retail_queries = NotAList
    \/ t.patent_queries = NotAList

\* the object returned on the model path
ModelExpansion(t) ==
    Expansion("model", "model text",
              Min(t.key_features, ListCap),
              IF t.extras THEN "model" ELSE "General",
              IF t.extras THEN 1 ELSE 0,
              Min(t.web_queries, ListCap),
              IF t.retail_queries = Absent THEN Min(t.web_queries, RetailFromWeb)
              ELSE Min(t.retail_queries, ListCap),
              IF t.patent_queries = Absent THEN 0
              ELSE Min(t.patent_queries, ListCap))

\* expandInvention for a request with kf key features, the completion
\* having ended as ok says and its text parsing to t
expandInvention(kf, ok, t) ==
    IF ~ok \/ ~t.parsed \/ MissingRequired(t) \/ SliceRaises(t)
    THEN OnFailure(kf)
    ELSE [at |-> "returned", result |-> ModelExpansion(t)]

\* the classes of model-call outcome
OutcomeClass(ok, t) ==
    IF ~ok THEN "provider_error"
    ELSE IF ~t.parsed THEN "malformed_json"
    ELSE IF MissingRequired(t) THEN "missing_field"
    ELSE IF SliceRaises(t) THEN "not_a_list"
    ELSE "valid"

ExpandCall ==
    /\ expansion.at = "called"
    /\ \E ok \in {c.ok : c \in Completions(env)}, t \in ExpansionTexts :
         LET r == expandInvention(expansion.key_features, ok, t)
         IN expansion' = [expansion EXCEPT !.at = r.at, !.result = r.result,
                                           !.outcome = OutcomeClass(ok, t)]
    /\ UNCHANGED <<pipelineVars, notExpansion>>

InitExpand ==
    /\ env \in {e \in Environments : e.tavily /\ e.ebay /\ e.patentsview}
    /\ HandlerIdle
    /\ \E kf \in RequestFeatures :
         expansion = [at |-> "called", key_features |-> kf,
                      outcome |-> "none", result |-> "none"]
    /\ gateway = "unused" /\ retry = "unused" /\ cache = "unused"
    /\ limiter = "unused"
    /\ handoff = "unused" /\ merged = "unused" /\ signup = "unused"
    /\ searches = "unused"

NextExpand == ExpandCall

SpecExpand == InitExpand /\ [][NextExpand]_vars

\* C13: expandInvention never raises; on a provider error, malformed JSON
\* or JSON lacking expanded_description, key_features or web_queries it
\* returns the fallback expansion built from the request, and it returns
\* the model's expansion only when the three required fields are present.
C13_ExpandNeverRaises ==
    /\ expansion.at # "raised"
    /\ expansion.at = "returned" =>
          /\ expansion.outcome \in {"provider_error", "malformed_json", "missing_field"}
                => expansion.result =
                     Expansion("fallback", "request.description",
                               IF expansion.key_features = Absent THEN 0
                               ELSE expansion.key_features, "General", 0, 2, 2, 1)
          /\ expansion.result.source = "model" => expansion.outcome = "valid"

C13_Witness ==
    /\ expansion.at = "returned"
    /\ expansion.outcome = "missing_field"
    /\ expansion.result.source = "fallback"
    /\ expansion.result.web_queries = 2

\* C14: every ExpandedInvention returned, on the model path and on the
\* fallback path, has at most 5 key_features and at most 5 entries in each
\* of web_queries, retail_queries and patent_queries, for every request.
C14_ListCaps ==
    expansion.at = "returned" =>
        /\ expansion.result.key_features <= 5
        /\ expansion.result.web_queries <= 5
        /\ expansion.result.retail_queries <= 5
        /\ expansion.result.patent_queries <= 5

C14_Witness ==
    /\ expansion.at = "returned"
    /\ expansion.outcome = "provider_error"
    /\ expansion.key_features = 6
    /\ expansion.result.source = "fallback"
    /\ expansion.result.key_features = 6


(***************************************************************************)
(* withRetry (lib/search/retry.ts), specification SpecRetry                *)
(* Delays are in milliseconds.  fn is the caller's function: each          *)
(* invocation returns, or throws a value of any kind.                      *)
(***************************************************************************)
MaxAttemptsOpt == 3     \* largest maxAttempts a caller passes

DefaultMaxAttempts == 3
DefaultInitialDelayMs == 1000
DefaultMaxDelayMs == 10000
DefaultBackoffMultiplier == 2

\* RetryOptions: every field optional
RetryOptions ==
    [maxAttempts : (1..MaxAttemptsOpt) \cup {Absent},
     initialDelayMs : {Absent, 4000, 20000},
     maxDelayMs : {Absent, 6000},
     backoffMultiplier : {Absent, 1, 3},
     retryOn : {"default", "always", "never"}]

ThrownValue(kind, message) == [kind |-> kind, message |-> message]

NoError == ThrownValue("undefined", "")

\* an invocation that returned
Returns == ThrownValue("returned", "")

\* what fn may throw: an Error, a value that is not an Error but has a
\* string form, or a value with no string form (Object.create(null))
ThrownValues ==
    {ThrownValue("Error", m) :
        m \in {PV400, PV500, PVRate, Msg401, Msg403Timeout, Msg400Generate, Msg404}}
    \cup {ThrownValue("string", Msg401), ThrownValue("object", "")}

\* one invocation of fn
FnOutcomes ==
    {[ok |-> TRUE, thrown |-> NoError]}
    \cup {[ok |-> FALSE, thrown |-> t] : t \in ThrownValues}

\* error instanceof Error ? error : new Error(String(error));
\* String raises a TypeError on a value with no string form
ToError(t) ==
    IF t.kind = "Error" THEN [raises |-> FALSE, error |-> t]
    ELSE IF t.kind = "string"
    THEN [raises |-> FALSE, error |-> ThrownValue("Error", t.message)]
    ELSE [raises |-> TRUE, error |-> NoError]

\* the classifiers applied to the thrown value itself: false unless it is
\* an Error
NonRetryableThrown(t) == t.kind = "Error" /\ isNonRetryableError(t.message)
RetryableThrown(t) == t.kind = "Error" /\ isRetryableError(t.message)

\* the retryOn predicate in force
retryOn(which, t) ==
    IF which = "default" THEN RetryableThrown(t)
    ELSE which = "always"

RetryResult(success, data, attempts, lastError) ==
    [success |-> success, data |-> data, attempts |-> attempts,
     lastError |-> lastError]

NoRetryResult == RetryResult(FALSE, 0, 0, NoError)

\* the destructuring of options with its defaults
WithDefault(v, d) == IF v = Absent THEN d ELSE v

\* entry of withRetry
RetryBegin ==
    /\ retry.at = "idle"
    /\ LET o == retry.options
       IN retry' = [retry EXCEPT
            !.at = "call",
            !.maxAttempts = WithDefault(o.maxAttempts, DefaultMaxAttempts),
            !.maxDelayMs = WithDefault(o.maxDelayMs, DefaultMaxDelayMs),
            !.backoffMultiplier =
                WithDefault(o.backoffMultiplier, DefaultBackoffMultiplier),
            !.delay = WithDefault(o.initialDelayMs, DefaultInitialDelayMs),
            !.attempt = 1]
    /\ UNCHANGED <<pipelineVars, notRetry>>

\* the loop's exit: return { success: false, attempts: maxAttempts, lastError }
RetryFailure(lastError) ==
    RetryResult(FALSE, 0, retry.maxAttempts, lastError)

\* one pass of the loop body up to the wait: fn is invoked, and the catch
\* block decides
RetryInvoke ==
    /\ retry.at = "call"
    /\ \E out \in FnOutcomes :
         LET n == Len(retry.history) + 1
             conv == ToError(out.thrown)
         IN IF out.ok
            THEN retry' = [retry EXCEPT
                     !.at = "returned",
                     !.history = Append(@, Returns),
                     !.result = RetryResult(TRUE, n, retry.attempt, NoError)]
            ELSE IF conv.raises
            THEN retry' = [retry EXCEPT !.at = "raised",
                                        !.history = Append(@, out.thrown)]
            ELSE IF NonRetryableThrown(out.thrown)
            THEN retry' = [retry EXCEPT
                     !.at = "returned",
                     !.history = Append(@, out.thrown),
                     !.lastError = conv.error,
                     !.result = RetryFailure(conv.error)]
            ELSE IF retry.attempt < retry.maxAttempts
                    /\ retryOn(retry.options.retryOn, out.thrown)
            THEN retry' = [retry EXCEPT
                     !.at = "wait",
                     !.history = Append(@, out.thrown),
                     !.lastError = conv.error]
            ELSE retry' = [retry EXCEPT
                     \* break, or the last attempt: the loop ends either way
                     !.at = "returned",
                     !.history = Append(@, out.thrown),
                     !.lastError = conv.error,
                     !.result = RetryFailure(conv.error)]
    /\ UNCHANGED <<pipelineVars, notRetry>>

\* the timer of delay ms fires; the next delay is computed and the loop
\* goes round
RetryWait ==
    /\ retry.at = "wait"
    /\ retry' = [retry EXCEPT
           !.at = "call",
           !.waits = Append(@, retry.delay),
           !.delay = Min(retry.delay * retry.backoffMultiplier, retry.maxDelayMs),
           !.attempt = @ + 1]
    /\ UNCHANGED <<pipelineVars, notRetry>>

InitRetry ==
    /\ env \in {e \in Environments :
                  e.tavily /\ e.ebay /\ e.patentsview /\ e.anthropic /\ e.openai}
    /\ HandlerIdle
    /\ \E o \in RetryOptions :
         retry = [at |-> "idle", options |-> o, maxAttempts |-> 0,
                  maxDelayMs |-> 0, backoffMultiplier |-> 0, delay |-> 0,
                  attempt |-> 0, history |-> <<>>, waits |-> <<>>,
                  lastError |-> NoError,
                  result |-> NoRetryResult]
    /\ gateway = "unused" /\ expansion = "unused" /\ cache = "unused"
    /\ limiter = "unused"
    /\ handoff = "unused" /\ merged = "unused" /\ signup = "unused"
    /\ searches = "unused"

NextRetry ==
    \/ RetryBegin
    \/ RetryInvoke
    \/ RetryWait

SpecRetry == InitRetry /\ [][NextRetry]_vars

\* the number of times fn has been invoked
Invocations == Len(retry.history)

\* C15: withRetry never raises, whatever fn throws; fn is invoked at most
\* maxAttempts times (3 by default) and never again after an invocation
\* succeeded, in which case success = true is returned with that
\* invocation's data.
C15_NeverRaisesBoundedInvocations ==
    /\ retry.at # "raised"
    /\ retry.at # "idle" =>
          Invocations <= (IF retry.options.maxAttempts = Absent THEN 3
                          ELSE retry.options.maxAttempts)
    /\ \A i \in 1..Invocations :
          retry.history[i] = Returns =>
             /\ i = Invocations
             /\ retry.at = "returned"
             /\ retry.result.success
             /\ retry.result.data = i

C15_Witness ==
    /\ retry.at = "raised"
    /\ Invocations = 2
    /\ retry.history[2].kind = "object"
    /\ retry.options.maxAttempts = Absent

\* Errors of the non-retryable classes: an auth error (401, 403,
\* unauthorized, forbidden) or a bad request (400)
NonRetryableClass ==
    {ThrownValue("Error", m) : m \in {Msg401, Msg403Timeout, PV400, Msg400Generate}}

\* C16: when an invocation of fn fails with an error of a non-retryable
\* class, no further invocation is made and success = false is returned
\* with that error, even when attempts remain and even when the retryOn
\* predicate would accept the error.
C16_NonRetryableStops ==
    \A i \in 1..Invocations :
        retry.history[i] \in NonRetryableClass =>
            /\ i = Invocations
            /\ retry.at = "returned"
            /\ ~retry.result.success
            /\ retry.result.lastError = retry.history[i]

C16_Witness ==
    /\ retry.options.retryOn = "always"
    /\ Invocations = 2
    /\ retry.history[1] = ThrownValue("Error", Msg400Generate)

RECURSIVE Pow(_, _)
Pow(b, n) == IF n = 0 THEN 1 ELSE b * Pow(b, n - 1)

\* the options in force, defaults applied
InitialDelayMs == WithDefault(retry.options.initialDelayMs, 1000)
MaxDelayMs == WithDefault(retry.options.maxDelayMs, 10000)
BackoffMultiplier == WithDefault(retry.options.backoffMultiplier, 2)

\* C17: the wait before retry k is initialDelayMs * backoffMultiplier^(k-1)
\* capped at maxDelayMs, so no wait exceeds maxDelayMs whatever the options,
\* and no wait occurs after the last attempt.
C17_BackoffCapped ==
    /\ \A k \in 1..Len(retry.waits) :
          /\ retry.waits[k] =
                Min(InitialDelayMs * Pow(BackoffMultiplier, k - 1), MaxDelayMs)
          /\ retry.waits[k] <= MaxDelayMs
    /\ retry.at = "wait" => Invocations < retry.maxAttempts
    /\ retry.at \in {"returned", "raised"} => Len(retry.waits) = Invocations - 1

C17_Witness ==
    /\ retry.options.initialDelayMs = 20000
    /\ retry.options.maxDelayMs = 6000
    /\ retry.waits = <<20000, 6000>>
    /\ retry.at = "returned"


(***************************************************************************)
(* The search-results cache (unnamed/part_007), specification SpecCache    *)
(* Time is in milliseconds.  A queryParams object is the sequence of its   *)
(* <<key, value>> pairs in insertion order; a string is the sequence of    *)
(* its character codes.  The table search_cache is a set of rows, at most  *)
(* one per query_hash (the upsert's conflict target).  Calls are           *)
(* sequential and every put takes at least a millisecond, so created_at    *)
(* differs from row to row.                                                *)
(***************************************************************************)
MaxPuts == 3        \* puts in one run
MaxTicks == 1       \* times the clock is advanced between calls
MaxNow == 1209600010    \* latest time a call is made at (two weeks on)
StorageLimit == 1   \* rows kept per web/retail type (1000 in STORAGE_LIMITS)

TTL == 604800000    \* 7 * 24 * 60 * 60 * 1000

NoExpiry == 0 - 1   \* expires_at: null

SearchTypes == {"patent", "web", "retail"}

\* STORAGE_LIMITS: patent rows are never deleted
Limited(searchType) == searchType # "patent"

\* the queryParams objects used: {a:1,b:2}, {b:2,a:1}, {a:2}, {b:1}
ParamObjects ==
    {<< <<"a", 1>>, <<"b", 2>> >>, << <<"b", 2>>, <<"a", 1>> >>,
     << <<"a", 2>> >>, << <<"b", 1>> >>}

\* the queries callers make: every object as a web search, one object as
\* a patent search and one as a retail search
Queries ==
    {<<"web", p>> : p \in ParamObjects}
    \cup {<<"patent", << <<"a", 1>>, <<"b", 2>> >> >>,
          <<"retail", << <<"a", 2>> >> >>}

\* charCodeAt of a key, of a value's digit and of the punctuation
CharCode(c) == CASE c = "a" -> 97 [] c = "b" -> 98 [] c = "c" -> 99
DigitCode(v) == 48 + v
Quote == 34
Colon == 58
Comma == 44
OpenBrace == 123
CloseBrace == 125

\* Object.keys(params).sort(): the pairs in ascending key order
RECURSIVE InsertByKey(_, _)
InsertByKey(p, s) ==
    IF s = <<>> THEN <<p>>
    ELSE IF CharCode(p[1]) <= CharCode(Head(s)[1]) THEN <<p>> \o s
    ELSE <<Head(s)>> \o InsertByKey(p, Tail(s))

RECURSIVE SortKeys(_)
SortKeys(params) ==
    IF params = <<>> THEN <<>>
    ELSE InsertByKey(Head(params), SortKeys(Tail(params)))

\* variant: the keys are written in insertion order
KeyOrder_Insertion(params) == params

\* the order in which JSON.stringify writes the properties
KeyOrder(params) == SortKeys(params)

\* JSON.stringify of the pairs in the given order: {"a":1,"b":2}
RECURSIVE Members(_)
Members(pairs) ==
    IF pairs = <<>> THEN <<>>
    ELSE <<Quote, CharCode(pairs[1][1]), Quote, Colon, DigitCode(pairs[1][2])>>
         \o (IF Len(pairs) = 1 THEN <<>> ELSE <<Comma>>)
         \o Members(Tail(pairs))

Stringify(pairs) == <<OpenBrace>> \o Members(pairs) \o <<CloseBrace>>

\* a 32-bit integer as its two 16-bit halves <<hi, lo>>
Half == 65536

\* hash = ((hash << 5) - hash) + char; hash = hash & hash
\* that is 31 * hash + char, modulo 2^32
HashStep(h, char) ==
    LET lo == 31 * h[2] + char
    IN <<(31 * h[1] + (lo \div Half)) % Half, lo % Half>>

RECURSIVE HashFrom(_, _)
HashFrom(h, str) ==
    IF str = <<>> THEN h ELSE HashFrom(HashStep(h, Head(str)), Tail(str))

\* Math.abs of the signed value of the 32 bits
AbsHalves(h) ==
    IF h[1] < Half \div 2 THEN h
    ELSE <<(Half - 1 - h[1] + (IF h[2] = 0 THEN 1 ELSE 0)) % Half,
           (Half - h[2]) % Half>>

\* the hash of every object used, computed once
HashOfParams ==
    [params \in ParamObjects |->
        AbsHalves(HashFrom(<<0, 0>>, Stringify(KeyOrder(params))))]

\* generateQueryHash: the type, then the hash value (written in base 36)
generateQueryHash(searchType, params) == <<searchType, HashOfParams[params]>>

Row(hash, searchType, params, payload, created, expires) ==
    [query_hash |-> hash, search_type |-> searchType, query_params |-> params,
     results |-> payload, created_at |-> created, expires_at |-> expires]

RowsOfType(rows, searchType) == {r \in rows : r.search_type = searchType}

\* variant: a plain insert, no conflict target
Upsert_InsertOnly(rows, new) == rows \cup {new}

\* upsert with onConflict: 'query_hash': the columns given are written,
\* created_at is written on insertion only
Upsert(rows, new) ==
    IF \E r \in rows : r.query_hash = new.query_hash
    THEN {IF r.query_hash = new.query_hash
          THEN [new EXCEPT !.created_at = r.created_at] ELSE r : r \in rows}
    ELSE rows \cup {new}

\* variant: order('created_at', { ascending: false })
EvictionOrder_NewestFirst(a, b) == a.created_at >= b.created_at

\* order('created_at', { ascending: true })
EvictionOrder(a, b) == a.created_at <= b.created_at

\* the first n rows of the set in eviction order
RECURSIVE FirstRows(_, _)
FirstRows(rows, n) ==
    IF n = 0 \/ rows = {} THEN {}
    ELSE LET first == CHOOSE r \in rows : \A o \in rows : EvictionOrder(r, o)
         IN {first} \cup FirstRows(rows \ {first}, n - 1)

\* enforceStorageLimit
enforceStorageLimit(rows, searchType) ==
    LET count == Cardinality(RowsOfType(rows, searchType))
    IN IF count = 0 \/ count <= StorageLimit THEN rows
       ELSE rows \ FirstRows(RowsOfType(rows, searchType), count - StorageLimit)

\* cacheSearchResults at time now
cacheSearchResults(rows, searchType, params, payload, now) ==
    LET expiresAt == IF searchType = "patent" THEN NoExpiry ELSE now + TTL
        stored == Upsert(rows, Row(generateQueryHash(searchType, params),
                                   searchType, params, payload, now, expiresAt))
    IN IF Limited(searchType) THEN enforceStorageLimit(stored, searchType)
       ELSE stored

Miss == [hit |-> FALSE, results |-> 0]

\* variant: no row is ever taken as expired
Expired_Never(data, now) == FALSE

\* variant: the test for a null expires_at is left out
Expired_NullIsPast(data, now) == data.expires_at < now

\* data.expires_at && new Date(data.expires_at) < new Date()
Expired(data, now) == data.expires_at # NoExpiry /\ data.expires_at < now

\* getCachedResults at time now: what it returns and the rows it leaves
getCachedResults(rows, searchType, params, now) ==
    LET found == {r \in rows :
                    /\ r.query_hash = generateQueryHash(searchType, params)
                    /\ r.search_type = searchType}
    IN IF found = {} THEN [returns |-> Miss, rows |-> rows]
       ELSE LET data == CHOOSE r \in found : TRUE
            IN IF Expired(data, now)
               THEN [returns |-> Miss, rows |-> rows \ {data}]
               ELSE [returns |-> [hit |-> TRUE, results |-> data.results],
                     rows |-> rows]

CacheCall(op, searchType, params, at, returns) ==
    [op |-> op, search_type |-> searchType, params |-> params, at |-> at,
     returns |-> returns]

NoCall == CacheCall("none", "none", <<>>, 0, Miss)

\* a caller puts results; the results are numbered by the put
CachePut ==
    /\ cache.puts < MaxPuts
    /\ \E q \in Queries :
         LET searchType == q[1]
             params == q[2]
             payload == cache.puts + 1
             call == CacheCall("put", searchType, params, cache.now,
                               [hit |-> FALSE, results |-> payload])
         IN cache' = [cache EXCEPT
                !.rows = cacheSearchResults(cache.rows, searchType, params,
                                            payload, cache.now),
                !.now = @ + 1,
                !.puts = @ + 1,
                !.lastPut = call,
                !.last = call]
    /\ UNCHANGED <<pipelineVars, notCache>>

\* a caller looks a query up
CacheGet ==
    /\ \E q \in Queries :
         LET searchType == q[1]
             params == q[2]
             g == getCachedResults(cache.rows, searchType, params, cache.now)
         IN cache' = [cache EXCEPT
                !.rows = g.rows,
                !.last = CacheCall("get", searchType, params, cache.now,
                                   g.returns)]
    /\ UNCHANGED <<pipelineVars, notCache>>

\* time passes between two calls; no call has just returned
CacheTick ==
    /\ cache.ticks < MaxTicks
    /\ \E d \in {TTL - 2, TTL + 2} :
         /\ cache.now + d <= MaxNow
         /\ cache' = [cache EXCEPT !.now = @ + d, !.ticks = @ + 1,
                                    !.last = NoCall]
    /\ UNCHANGED <<pipelineVars, notCache>>

InitCache ==
    /\ env \in {e \in Environments :
                  e.tavily /\ e.ebay /\ e.patentsview /\ e.anthropic /\ e.openai}
    /\ HandlerIdle
    /\ cache = [rows |-> {}, now |-> 0, puts |-> 0, ticks |-> 0,
                lastPut |-> NoCall, last |-> NoCall]
    /\ gateway = "unused" /\ expansion = "unused" /\ retry = "unused"
    /\ limiter = "unused"
    /\ handoff = "unused" /\ merged = "unused" /\ signup = "unused"
    /\ searches = "unused"

NextCache ==
    \/ CachePut
    \/ CacheGet
    \/ CacheTick

SpecCache == InitCache /\ [][NextCache]_vars

\* the call that has just returned is a get that follows the latest put,
\* with no other put in between
GetAfterPut ==
    /\ cache.last.op = "get" /\ cache.lastPut.op = "put"
    /\ cache.last.search_type = cache.lastPut.search_type

\* the time between that put and that get
Elapsed == cache.last.at - cache.lastPut.at

ReturnsStored == cache.last.returns = [hit |-> TRUE, results |-> cache.lastPut.returns.results]

\* C18: a get with the type and params of the latest put returns the stored
\* results, for type patent after any elapsed time and for web and retail
\* when less than 7 days have elapsed, and returns a miss for web and retail
\* once more than 7 days have elapsed.
C18_RoundTrip ==
    (GetAfterPut /\ cache.last.params = cache.lastPut.params) =>
        /\ cache.last.search_type = "patent" => ReturnsStored
        /\ (cache.last.search_type # "patent" /\ Elapsed < 7 * 24 * 60 * 60 * 1000)
              => ReturnsStored
        /\ (cache.last.search_type # "patent" /\ Elapsed > 7 * 24 * 60 * 60 * 1000)
              => ~cache.last.returns.hit

C18_Witness ==
    /\ GetAfterPut /\ cache.last.params = cache.lastPut.params
    /\ cache.last.search_type = "web"
    /\ Elapsed = TTL + 3
    /\ ~cache.last.returns.hit
    /\ \E r \in cache.rows : r.search_type = "patent"

\* the same keys with the same values, whatever the insertion order
SameObject(p, q) == {p[i] : i \in 1..Len(p)} = {q[i] : i \in 1..Len(q)}

\* C19: two queryParams objects with the same keys and values in different
\* insertion order have the same query_hash for every search type, so a put
\* with one is found by a get with the other.
C19_KeyOrderIndependent ==
    /\ \A t \in SearchTypes, p \in ParamObjects, q \in ParamObjects :
          SameObject(p, q) => generateQueryHash(t, p) = generateQueryHash(t, q)
    /\ (GetAfterPut /\ SameObject(cache.last.params, cache.lastPut.params)
          /\ Elapsed < TTL) => ReturnsStored

C19_Witness ==
    /\ GetAfterPut
    /\ cache.lastPut.params = << <<"a", 1>>, <<"b", 2>> >>
    /\ cache.last.params = << <<"b", 2>>, <<"a", 1>> >>
    /\ ReturnsStored

\* the rows of the limited types are within the limit
WithinLimit ==
    \A t \in {"web", "retail"} : Cardinality(RowsOfType(cache.rows, t)) <= StorageLimit

\* a step that is a put inserting a row of a limited type that has
\* StorageLimit rows already
PutBeyondLimit ==
    /\ cache'.puts = cache.puts + 1
    /\ cache'.last.search_type # "patent"
    /\ Cardinality(RowsOfType(cache.rows, cache'.last.search_type)) = StorageLimit
    /\ \A r \in cache.rows :
          r.query_hash # generateQueryHash(cache'.last.search_type, cache'.last.params)

\* that step deletes the one row of the type with the smallest created_at
\* and nothing else
EvictsOldestOnly ==
    LET t == cache'.last.search_type
        old == RowsOfType(cache.rows, t)
    IN \E d \in old :
         /\ \A o \in old : d.created_at <= o.created_at
         /\ cache.rows \ cache'.rows = {d}
         /\ Cardinality(cache'.rows \ cache.rows) = 1
         /\ \A u \in SearchTypes \ {t} :
               RowsOfType(cache'.rows, u) = RowsOfType(cache.rows, u)

\* C20: a put that brings the rows of a web or retail type to limit + 1
\* deletes exactly one row, the one of that type with the smallest
\* created_at, and leaves the rows of the other types unchanged; after any
\* sequence of puts the row count of a web or retail type is within its
\* limit.
C20_EvictsOldest == []WithinLimit /\ [][PutBeyondLimit => EvictsOldestOnly]_vars

C20_Witness ==
    /\ cache.last.op = "put" /\ cache.last.search_type = "web"
    /\ cache.puts = 3 /\ cache.ticks = 0
    /\ \E r \in cache.rows : r.search_type = "patent" /\ r.created_at = 0
    /\ \E r \in cache.rows :
          /\ RowsOfType(cache.rows, "web") = {r}
          /\ r.created_at = 2 /\ r.results = 3

\* the rows a get of the call just returned looked at: those stored under
\* its hash and type before the call
Looked ==
    {r \in cache.rows :
        /\ r.query_hash = generateQueryHash(cache'.last.search_type, cache'.last.params)
        /\ r.search_type = cache'.last.search_type}

\* C21: a getCachedResults call that finds a row whose expires_at is in the
\* past deletes the row and returns a miss, never the stale results; a
\* patent row (expires_at null) is never deleted by a read.
C21_ExpiredReadDeletes ==
    [][cache'.last.op = "get" =>
         /\ \A r \in Looked :
               (r.expires_at # NoExpiry /\ r.expires_at < cache.now) =>
                   /\ r \notin cache'.rows
                   /\ cache'.last.returns = [hit |-> FALSE, results |-> 0]
         /\ \A r \in cache.rows :
               (r.search_type = "patent" /\ r.expires_at = NoExpiry) =>
                   r \in cache'.rows]_vars

C21_Witness ==
    /\ cache.last.op = "get" /\ cache.last.search_type = "web"
    /\ cache.lastPut.op = "put" /\ cache.lastPut.search_type = "web"
    /\ cache.lastPut.params = cache.last.params
    /\ cache.lastPut.at + TTL < cache.last.at
    /\ ~cache.last.returns.hit
    /\ RowsOfType(cache.rows, "web") = {}
    /\ \E r \in cache.rows : r.search_type = "patent" /\ r.expires_at = NoExpiry

(***************************************************************************)
(* The cache over a store that may fail (specification SpecCacheFaulty).   *)
(* A call to the store returns its result, returns an error in its result  *)
(* ({ data: null, error }) or throws; createClient returns or throws.  At  *)
(* most one operation fails in a call.                                     *)
(***************************************************************************)
StoreOps == {"client", "select", "upsert", "count", "delete"}

Fault(op, kind) == [op |-> op, kind |-> kind]

NoFault == Fault("none", "ok")

StoreFaults ==
    {NoFault} \cup {Fault(op, "throws") : op \in StoreOps}
    \cup {Fault(op, "error") : op \in StoreOps \ {"client"}}

\* how the operation op ends under the fault f
Ends(f, op) == IF f.op = op THEN f.kind ELSE "ok"

\* the outcome of a call that raised
Raised == [raised |-> TRUE]

CacheOutcome(rows, returns) == [rows |-> rows, returns |-> returns]

\* catch { return null }
ReadCatch(rows) == CacheOutcome(rows, Miss)

\* variant: the catch block passes the error on
WriteCatch_Rethrow(rows, returns) == CacheOutcome(rows, Raised)

\* catch (error) { console.error(...) } of cacheSearchResults
WriteCatch(rows, returns) == CacheOutcome(rows, returns)

\* catch (error) { console.error(...) } of enforceStorageLimit
EnforceCatch(rows, returns) == CacheOutcome(rows, returns)

\* getCachedResults over the store
getCachedResultsOver(f, rows, searchType, params, now) ==
    LET found == {r \in rows :
                    /\ r.query_hash = generateQueryHash(searchType, params)
                    /\ r.search_type = searchType}
    IN IF Ends(f, "client") = "throws" \/ Ends(f, "select") = "throws"
       THEN ReadCatch(rows)
       ELSE IF Ends(f, "select") = "error" \/ found = {}
       THEN CacheOutcome(rows, Miss)
       ELSE LET data == CHOOSE r \in found : TRUE
            IN IF Expired(data, now)
               THEN IF Ends(f, "delete") = "throws" THEN ReadCatch(rows)
                    ELSE IF Ends(f, "delete") = "error" THEN CacheOutcome(rows, Miss)
                    ELSE CacheOutcome(rows \ {data}, Miss)
               ELSE CacheOutcome(rows, [hit |-> TRUE, results |-> data.results])

\* enforceStorageLimit over the store
enforceStorageLimitOver(f, rows, searchType, returns) ==
    LET count == Cardinality(RowsOfType(rows, searchType))
    IN IF Ends(f, "count") = "throws" THEN EnforceCatch(rows, returns)
       ELSE IF Ends(f, "count") = "error" \/ count = 0 \/ count <= StorageLimit
       THEN CacheOutcome(rows, returns)
       ELSE IF Ends(f, "select") = "throws" THEN EnforceCatch(rows, returns)
       ELSE IF Ends(f, "select") = "error" THEN CacheOutcome(rows, returns)
       ELSE IF Ends(f, "delete") = "throws" THEN EnforceCatch(rows, returns)
       ELSE IF Ends(f, "delete") = "error" THEN CacheOutcome(rows, returns)
       ELSE CacheOutcome(rows \ FirstRows(RowsOfType(rows, searchType),
                                        count - StorageLimit), returns)

\* cacheSearchResults over the store
cacheSearchResultsOver(f, rows, searchType, params, payload, now) ==
    LET returns == [hit |-> FALSE, results |-> payload]
        expiresAt == IF searchType = "patent" THEN NoExpiry ELSE now + TTL
        stored == IF Ends(f, "upsert") = "error" THEN rows
                  ELSE Upsert(rows, Row(generateQueryHash(searchType, params),
                                        searchType, params, payload, now, expiresAt))
    IN IF Ends(f, "client") = "throws" \/ Ends(f, "upsert") = "throws"
       THEN WriteCatch(rows, returns)
       ELSE IF Limited(searchType)
       THEN LET e == enforceStorageLimitOver(f, stored, searchType, returns)
            IN IF e.returns = Raised THEN WriteCatch(e.rows, returns) ELSE e
       ELSE CacheOutcome(stored, returns)

\* the queries made over the failing store
FaultyQueries ==
    {<<"web", << <<"a", 1>>, <<"b", 2>> >> >>, <<"web", << <<"a", 2>> >> >>}

\* the operations a get, a put of an unlimited type and a put of a limited
\* type make
OpsOf(op, searchType) ==
    IF op = "get" THEN {"client", "select", "delete"}
    ELSE IF Limited(searchType) THEN StoreOps
    ELSE {"client", "upsert"}

CachePutOver ==
    /\ cache.puts < MaxPuts
    /\ \E q \in FaultyQueries, f \in StoreFaults :
         LET payload == cache.puts + 1
             c == cacheSearchResultsOver(f, cache.rows, q[1], q[2], payload,
                                         cache.now)
             call == CacheCall("put", q[1], q[2], cache.now, c.returns)
         IN /\ f.op \in OpsOf("put", q[1]) \cup {"none"}
            /\ cache' = [cache EXCEPT !.rows = c.rows, !.now = @ + 1,
                                      !.puts = @ + 1, !.lastPut = call,
                                      !.last = call, !.fault = f]
    /\ UNCHANGED <<pipelineVars, notCache>>

CacheGetOver ==
    /\ \E q \in FaultyQueries, f \in StoreFaults :
         LET c == getCachedResultsOver(f, cache.rows, q[1], q[2], cache.now)
         IN /\ f.op \in OpsOf("get", q[1]) \cup {"none"}
            /\ cache' = [cache EXCEPT
                   !.rows = c.rows,
                   !.last = CacheCall("get", q[1], q[2], cache.now, c.returns),
                   !.fault = f]
    /\ UNCHANGED <<pipelineVars, notCache>>

InitCacheFaulty ==
    /\ env \in {e \in Environments :
                  e.tavily /\ e.ebay /\ e.patentsview /\ e.anthropic /\ e.openai}
    /\ HandlerIdle
    /\ cache = [rows |-> {}, now |-> 0, puts |-> 0, ticks |-> 0,
                lastPut |-> NoCall, last |-> NoCall, fault |-> NoFault]
    /\ gateway = "unused" /\ expansion = "unused" /\ retry = "unused"
    /\ limiter = "unused"
    /\ handoff = "unused" /\ merged = "unused" /\ signup = "unused"
    /\ searches = "unused"

NextCacheFaulty ==
    \/ CachePutOver
    \/ CacheGetOver
    \/ CacheTick

SpecCacheFaulty == InitCacheFaulty /\ [][NextCacheFaulty]_vars

\* the store failed before the read had its row
ReadFailed == cache.fault.op \in {"client", "select"}

\* C22: cache failures never propagate: when the store fails during a read
\* getCachedResults returns a miss; when it fails during a write or during
\* storage-limit enforcement cacheSearchResults completes without raising.
C22_CacheFailuresSwallowed ==
    /\ cache.last.returns # Raised
    /\ (cache.last.op = "get" /\ ReadFailed) => cache.last.returns = Miss
    /\ (cache.last.op = "put" /\ cache.fault # NoFault) =>
          cache.last.returns = [hit |-> FALSE, results |-> cache.puts]

C22_Witness ==
    /\ cache.last.op = "put" /\ cache.last.search_type = "web"
    /\ cache.fault = Fault("delete", "throws")
    /\ Cardinality(RowsOfType(cache.rows, "web")) = StorageLimit + 1
    /\ cache.last.returns = [hit |-> FALSE, results |-> 2]

(***************************************************************************)
(* Concurrent cacheSearchResults calls with the same search type and       *)
(* params (specification SpecCacheRace).  Each call is a writer; a call's  *)
(* store operations are atomic and interleave with those of the other      *)
(* calls.  A row's id is its created_at, distinct for every insertion.     *)
(* The storage limit is at least the number of writers, as 1000 is.        *)
(***************************************************************************)
MaxWriters == 2     \* concurrent calls
RaceLimit == 2      \* rows kept per web/retail type (1000 in STORAGE_LIMITS)

Writers == 1..MaxWriters

\* the params every writer passes, and their hash under a type
RaceParams == << <<"a", 1>>, <<"b", 2>> >>
RaceHash(searchType) == generateQueryHash(searchType, RaceParams)

\* a row stored earlier under another hash
OtherRow(searchType, k) ==
    Row(<<searchType, <<0, k>>>>, searchType, <<>>, 0,
        k, IF searchType = "patent" THEN NoExpiry ELSE k + TTL)

\* the stores the calls may start from: n rows of the written type under
\* other hashes, one row of each other type, and possibly a row under the
\* written hash, the oldest of all; the type is within its limit
RaceStores(searchType) ==
    {{OtherRow(searchType, k) : k \in 1..n}
     \cup {OtherRow(u, RaceLimit + 1) : u \in SearchTypes \ {searchType}}
     \cup (IF exists
           THEN {Row(RaceHash(searchType), searchType, RaceParams, 0, 0,
                     IF searchType = "patent" THEN NoExpiry ELSE TTL)}
           ELSE {}) :
        <<n, exists>> \in {c \in (1..RaceLimit) \X {TRUE, FALSE} :
                             /\ c[1] + 1 >= RaceLimit
                             /\ c[2] => c[1] < RaceLimit}}

WriterState(at, toDelete, ids) == [at |-> at, toDelete |-> toDelete, ids |-> ids]

RaceTypeRows == RowsOfType(cache.rows, cache.search_type)

\* supabase.from('search_cache').upsert(cacheData, { onConflict })
RaceUpsert(w) ==
    /\ cache.writers[w].at = "upsert"
    /\ cache' = [cache EXCEPT
           !.rows = Upsert(@, Row(RaceHash(cache.search_type), cache.search_type,
                                  RaceParams, w, cache.now,
                                  IF cache.search_type = "patent" THEN NoExpiry
                                  ELSE cache.now + TTL)),
           !.now = @ + 1,
           !.applied = Append(@, w),
           !.writers[w].at = IF Limited(cache.search_type) THEN "count"
                             ELSE "done"]
    /\ UNCHANGED <<pipelineVars, notCache>>

\* enforceStorageLimit: the count of the type's rows
RaceCount(w) ==
    /\ cache.writers[w].at = "count"
    /\ LET count == Cardinality(RaceTypeRows)
       IN cache' = [cache EXCEPT !.writers[w] =
              IF count = 0 \/ count <= RaceLimit
              THEN WriterState("done", 0, {})
              ELSE WriterState("select", count - RaceLimit, {})]
    /\ UNCHANGED <<pipelineVars, notCache>>

\* enforceStorageLimit: the ids of the oldest rows
RaceSelect(w) ==
    /\ cache.writers[w].at = "select"
    /\ LET ids == {r.created_at :
                     r \in FirstRows(RaceTypeRows, cache.writers[w].toDelete)}
       IN cache' = [cache EXCEPT !.writers[w] =
              IF ids = {} THEN WriterState("done", 0, {})
              ELSE WriterState("delete", cache.writers[w].toDelete, ids)]
    /\ UNCHANGED <<pipelineVars, notCache>>

\* enforceStorageLimit: delete().in('id', idsToDelete)
RaceDelete(w) ==
    /\ cache.writers[w].at = "delete"
    /\ cache' = [cache EXCEPT
           !.rows = {r \in @ : r.created_at \notin cache.writers[w].ids},
           !.writers[w].at = "done"]
    /\ UNCHANGED <<pipelineVars, notCache>>

InitCacheRace ==
    /\ env \in {e \in Environments :
                  e.tavily /\ e.ebay /\ e.patentsview /\ e.anthropic /\ e.openai}
    /\ HandlerIdle
    /\ \E searchType \in SearchTypes :
         \E store \in RaceStores(searchType) :
            cache = [rows |-> store, initial |-> store, now |-> RaceLimit + 2,
                     search_type |-> searchType, applied |-> <<>>,
                     writers |-> [w \in Writers |-> WriterState("upsert", 0, {})]]
    /\ gateway = "unused" /\ expansion = "unused" /\ retry = "unused"
    /\ limiter = "unused"
    /\ handoff = "unused" /\ merged = "unused" /\ signup = "unused"
    /\ searches = "unused"

NextCacheRace ==
    \E w \in Writers :
        \/ RaceUpsert(w)
        \/ RaceCount(w)
        \/ RaceSelect(w)
        \/ RaceDelete(w)

SpecCacheRace == InitCacheRace /\ [][NextCacheRace]_vars

\* every call has returned
RaceOver == \A w \in Writers : cache.writers[w].at = "done"

\* one row under the written hash, holding the results of the last write
OneRowLastWrite ==
    \E r \in cache.rows :
        /\ {o \in cache.rows : o.query_hash = RaceHash(cache.search_type)} = {r}
        /\ r.results = cache.applied[Len(cache.applied)]

\* the rows stored under other hashes before the calls
OtherRows == {r \in cache.initial : r.query_hash # RaceHash(cache.search_type)}

CachedTypes == IF cache = "unused" THEN {} ELSE {r.search_type : r \in cache.rows}

\* the channel's external search succeeded and found results
SearchSucceeded(c) ==
    /\ agent[c].at = "returned"
    /\ trace[c].search = "ok"
    /\ trace[c].found > 0

\* C24: every channel search consults the result cache before its external
\* call and writes the results to the cache after a successful external
\* call: a channel that returned after a successful search has left a row
\* of its type in the store.
C24_CacheWrittenAfterSearch ==
    \A c \in Channels : SearchSucceeded(c) => c \in CachedTypes

C24_Witness ==
    /\ \A c \in Channels : SearchSucceeded(c)
    /\ pc = "done"
    /\ CachedTypes = {}

(***************************************************************************)
(* The guidance of a response (specification SpecAgg)                      *)
(***************************************************************************)

\* the four templates and the four step lists, by risk level
TemplateOf ==
    [high_risk |-> "very_similar_found", incomplete |-> "search_incomplete",
     moderate_risk |-> "adjacent_found", low_risk |-> "no_obvious_matches"]

StepsOf ==
    [high_risk |-> "steps_high", incomplete |-> "steps_incomplete",
     moderate_risk |-> "steps_moderate", low_risk |-> "steps_low"]

Answered == pc = "done" /\ response.status = 200

C26_FailedLogSameResponse ==
    (pc = "done" /\ ai_memory.insert = "error") =>
        /\ response.status = 200
        /\ response = NoveltyCheckResponse(results["web"], results["retail"],
                                           results["patent"])
        /\ ai_memory.rows = 0

C26_Witness ==
    /\ pc = "done"
    /\ ai_memory = Memory(0, "error")
    /\ response.status = 200
    /\ response.risk_level = "moderate_risk"

(***************************************************************************)
(* Similarity of the findings (specification Spec)                         *)
(***************************************************************************)

\* the similarity of every finding of a channel's result
Similarities(c) == {results[c].findings[i] : i \in 1..Len(results[c].findings)}

\* a finding carries a model score only if its similarity is one
GivenNoScore(sim) == sim \notin ModelScores

\* C27: every finding of every NoveltyResult has a similarity_score in
\* [0,1] (0..100 hundredths), and a finding for which the model analysis
\* supplied no score carries similarity 0.
C27_SimilarityInRangeAbsentZero ==
    \A c \in Channels :
        agent[c].at = "returned" =>
            \A sim \in Similarities(c) :
                /\ sim \in 0..100
                /\ GivenNoScore(sim) => sim = 0

C27_Witness ==
    /\ pc = "done" /\ response.status = 200
    /\ Similarities("web") = {30}
    /\ Similarities("patent") = {50}
    /\ Similarities("retail") \subseteq {0}
    /\ trace["patent"].analysis = "parsed"
    /\ response.risk_level = "moderate_risk"

(***************************************************************************)
(* enforceRateLimit of one API client instance (unnamed/part_005),         *)
(* specification SpecLimiter.  Time is in milliseconds.  A call enters     *)
(* enforceRateLimit, possibly waits on a timer, then sets lastRequestTime  *)
(* and starts its outbound request; calls entered before an earlier one    *)
(* has started overlap.  USPTOClient and PatentsViewClient have the same   *)
(* code with intervals 1000 and 1334.                                      *)
(***************************************************************************)
MaxCalls == 3           \* calls made through the instance
StartClock == 2000      \* Date.now() when the instance is created
MaxClock == 5000        \* the clock is not advanced beyond this

MinRequestInterval == 1000

Calls == 1..MaxCalls

\* the amounts of time that pass between two steps
ClockSteps == {200, 800}

LimiterCall(at, wake, start) == [at |-> at, wake |-> wake, start |-> start]

\* enforceRateLimit as far as the await, or to its end when there is no
\* wait; the request is made at once after it
LimiterEnter(k) ==
    /\ limiter.calls[k].at = "idle"
    /\ LET now == limiter.now
           timeSinceLastRequest == now - limiter.lastRequestTime
       IN IF timeSinceLastRequest < MinRequestInterval
          THEN limiter' = [limiter EXCEPT !.calls[k] =
                   LimiterCall("waiting",
                               now + (MinRequestInterval - timeSinceLastRequest), 0)]
          ELSE limiter' = [limiter EXCEPT
                   !.lastRequestTime = now,
                   !.calls[k] = LimiterCall("started", 0, now)]
    /\ UNCHANGED <<pipelineVars, notLimiter>>

\* the timer has fired: this.lastRequestTime = Date.now(), then the request
LimiterResume(k) ==
    /\ limiter.calls[k].at = "waiting"
    /\ limiter.now >= limiter.calls[k].wake
    /\ limiter' = [limiter EXCEPT
           !.lastRequestTime = limiter.now,
           !.calls[k] = LimiterCall("started", 0, limiter.now)]
    /\ UNCHANGED <<pipelineVars, notLimiter>>

\* time passes; a timer that is due fires before more time passes
LimiterTick ==
    /\ \A k \in Calls :
          limiter.calls[k].at = "waiting" => limiter.now < limiter.calls[k].wake
    /\ \E d \in ClockSteps :
         /\ limiter.now + d <= MaxClock
         /\ limiter' = [limiter EXCEPT !.now = @ + d]
    /\ UNCHANGED <<pipelineVars, notLimiter>>

InitLimiter ==
    /\ env \in {e \in Environments :
                  e.tavily /\ e.ebay /\ e.patentsview /\ e.anthropic /\ e.openai}
    /\ HandlerIdle
    /\ limiter = [now |-> StartClock, lastRequestTime |-> 0,
                  calls |-> [k \in Calls |-> LimiterCall("idle", 0, 0)]]
    /\ gateway = "unused" /\ expansion = "unused"
    /\ retry = "unused" /\ cache = "unused"
    /\ handoff = "unused" /\ merged = "unused" /\ signup = "unused"
    /\ searches = "unused"

NextLimiter ==
    \/ \E k \in Calls : LimiterEnter(k)
    \/ \E k \in Calls : LimiterResume(k)
    \/ LimiterTick

SpecLimiter == InitLimiter /\ [][NextLimiter]_vars

StartedCalls == {k \in Calls : limiter.calls[k].at = "started"}

\* C28: any two outbound requests through the same client instance start
\* at least minRequestInterval apart, including when the calls overlap.
C28_RequestsSpacedApart ==
    \A i, j \in StartedCalls :
        i # j =>
            \/ limiter.calls[i].start - limiter.calls[j].start >= MinRequestInterval
            \/ limiter.calls[j].start - limiter.calls[i].start >= MinRequestInterval

C28_Witness ==
    /\ limiter.calls[1] = LimiterCall("started", 0, StartClock)
    /\ limiter.calls[2] = LimiterCall("started", 0, StartClock + MinRequestInterval)
    /\ limiter.calls[3] = LimiterCall("started", 0, StartClock + MinRequestInterval)

(***************************************************************************)
(* The patent channel after a bad request (specification Spec)             *)
(***************************************************************************)

\* the PatentsView search gave up on a 400
GaveUpOn400 ==
    /\ agent["patent"].at = "returned"
    /\ trace["patent"].search = "failed"
    /\ trace["patent"].thrown = PV400

\* C29: in the patent channel a bad-request (HTTP 400) failure is followed
\* by exactly one retry, with a sanitized and simplified query, before the
\* channel gives up: a search that gave up on a 400 made two attempts.
C29_BadRequestRetriedOnce ==
    GaveUpOn400 => trace["patent"].attempts = 2

C29_Witness ==
    /\ GaveUpOn400
    /\ trace["patent"].attempts = 1
    /\ results["patent"] = PatentApiErrors
    /\ pc = "done"

(***************************************************************************)
(* Transient provider errors (specification Spec)                          *)
(***************************************************************************)

\* rate limit and 5xx answers of the search providers
TransientErrors ==
    {PVRate, PV500, "Tavily API rate limit exceeded (429)", "Tavily API error (500)"}

\* the channel's search ended on a transient provider error
FailedOnTransient(c) ==
    /\ agent[c].at = "returned"
    /\ trace[c].search = "failed"
    /\ trace[c].thrown \in TransientErrors

\* C30: in every channel a transient provider error on an outbound search
\* call is retried, up to the attempt cap, before the channel degrades to
\* a failed result with completeness = 0: a search that ended on a
\* transient error has made more than one request.
C30_TransientRetriedBeforeFailure ==
    \A c \in Channels :
        FailedOnTransient(c) =>
            /\ trace[c].attempts >= 2
            /\ results[c].truth_scores.completeness = 0

C30_Witness ==
    /\ pc = "done"
    /\ FailedOnTransient("web")
    /\ trace["web"].thrown = "Tavily API rate limit exceeded (429)"
    /\ trace["web"].attempts = 1
    /\ results["web"] = WebSearchFailed("Tavily API rate limit exceeded (429)")

(***************************************************************************)
(* The queries each agent searches with (specification SpecHandoff).       *)
(* The handler passes expanded?.web_queries, expanded?.retail_queries and  *)
(* expanded?.patent_queries to the three agents (route.ts); a query list   *)
(* is a sequence of query texts.                                           *)
(***************************************************************************)

\* the query lists an ExpandedInvention may carry for a channel
SuppliedLists(c) == {<<>>, <<c \o " query 1">>, <<c \o " query 1", c \o " query 2">>}

\* the body's expanded field: absent, or a list per channel
ExpandedInventions ==
    {[supplied |-> FALSE, lists |-> [c \in Channels |-> <<>>]]}
    \cup {[supplied |-> TRUE, lists |-> l] :
            l \in {f \in [Channels -> UNION {SuppliedLists(c) : c \in Channels}] :
                     \A c \in Channels : f[c] \in SuppliedLists(c)}}

\* the agent's own query generation: generateNoveltySearchQueries,
\* searchSimilarProducts' queries, generatePatentSearchQueries
Generated(c) == <<c \o " generated query">>

NotSearched == <<"not searched">>

\* runWebSearchAgent: preGeneratedQueries?.length ? preGeneratedQueries
\* : generateNoveltySearchQueries(...)
WebSearchQueries(preGeneratedQueries) ==
    IF Len(preGeneratedQueries) > 0 THEN preGeneratedQueries
    ELSE Generated("web")

\* runRetailSearchAgent(request): the second argument is not taken
RetailSearchQueries(preGeneratedQueries) == Generated("retail")

\* runPatentSearchAgent: the supplied list is logged; fetchPatents(request)
\* generates the query set
PatentSearchQueries(preGeneratedQueries) == Generated("patent")

SearchQueries(c, preGeneratedQueries) ==
    IF c = "web" THEN WebSearchQueries(preGeneratedQueries)
    ELSE IF c = "retail" THEN RetailSearchQueries(preGeneratedQueries)
    ELSE PatentSearchQueries(preGeneratedQueries)

\* an agent of the Promise.all settles the queries it searches with
HandoffAgent(c) ==
    /\ handoff.used[c] = NotSearched
    /\ handoff' = [handoff EXCEPT
           !.used[c] = SearchQueries(c, handoff.expanded.lists[c])]
    /\ UNCHANGED <<pipelineVars, notHandoff>>

InitHandoff ==
    /\ env \in {e \in Environments :
                  e.tavily /\ e.ebay /\ e.patentsview /\ e.anthropic /\ e.openai}
    /\ HandlerIdle
    /\ \E x \in ExpandedInventions :
         handoff = [expanded |-> x, used |-> [c \in Channels |-> NotSearched]]
    /\ gateway = "unused" /\ expansion = "unused" /\ retry = "unused"
    /\ cache = "unused" /\ limiter = "unused"
    /\ merged = "unused" /\ signup = "unused"
    /\ searches = "unused"

NextHandoff ==
    \/ HandoffAgent("web")
    \/ HandoffAgent("retail")
    \/ HandoffAgent("patent")

SpecHandoff == InitHandoff /\ [][NextHandoff]_vars

\* C31: when an ExpandedInvention is supplied each agent searches with the
\* expansion's query list for its own channel, and an agent runs its own
\* query generation only when no queries were supplied for it.
C31_AgentsUseSuppliedQueries ==
    \A c \in Channels :
        handoff.used[c] # NotSearched =>
            handoff.used[c] =
                IF handoff.expanded.supplied /\ Len(handoff.expanded.lists[c]) > 0
                THEN handoff.expanded.lists[c]
                ELSE Generated(c)

C31_Witness ==
    /\ handoff.expanded.supplied
    /\ \A c \in Channels : Len(handoff.expanded.lists[c]) = 2
    /\ handoff.used["web"] = handoff.expanded.lists["web"]
    /\ handoff.used["retail"] = Generated("retail")
    /\ handoff.used["patent"] = Generated("patent")

(***************************************************************************)
(* The patent channel's result set (specification SpecMerge).  A patent    *)
(* number is the sequence of its characters.  The granted list is what     *)
(* searchPatentsViewWithQueries returns, free of exact duplicates; the     *)
(* disputed list is what the PTAB index holds for the same queries.        *)
(***************************************************************************)
MaxListed == 2      \* entries in each index's list

\* US1, us-1, US2, "US 2"
RawNumbers ==
    {<<"U", "S", "1">>, <<"u", "s", "-", "1">>,
     <<"U", "S", "2">>, <<"U", "S", " ", "2">>}

ToUpperCase(ch) == IF ch = "u" THEN "U" ELSE IF ch = "s" THEN "S" ELSE ch

\* patentNumber.replace(/[\s-]/g, '').toUpperCase()
RECURSIVE Normalized(_)
Normalized(number) ==
    IF number = <<>> THEN <<>>
    ELSE IF Head(number) \in {" ", "-"} THEN Normalized(Tail(number))
    ELSE <<ToUpperCase(Head(number))>> \o Normalized(Tail(number))

\* a PatentReference; isChallenged undefined is recorded as FALSE
PatentReference(number, source, isChallenged) ==
    [patentNumber |-> number, source |-> source, isChallenged |-> isChallenged]

\* the lists of at most MaxListed distinct raw numbers
NumberLists ==
    {l \in UNION {[1..n -> RawNumbers] : n \in 0..MaxListed} :
        \A i, j \in 1..Len(l) : i # j => l[i] # l[j]}

NormalizedOf(list) == {Normalized(list[i].patentNumber) : i \in 1..Len(list)}

\* the entries of list whose normalized number was not seen, in order
RECURSIVE Unseen(_, _)
Unseen(list, seen) ==
    IF list = <<>> THEN <<>>
    ELSE IF Normalized(Head(list).patentNumber) \in seen
    THEN Unseen(Tail(list), seen)
    ELSE <<Head(list)>>
         \o Unseen(Tail(list), seen \cup {Normalized(Head(list).patentNumber)})

\* mergePatentResults
mergePatentResults(patentsViewResults, ptabResults) ==
    LET challengedPatents == NormalizedOf(ptabResults)
        mergedPatentsView ==
            [i \in 1..Len(patentsViewResults) |->
                [patentsViewResults[i] EXCEPT !.isChallenged =
                    Normalized(patentsViewResults[i].patentNumber)
                        \in challengedPatents]]
        fromPatentsView == Unseen(mergedPatentsView, {})
        fromPtab == Unseen(ptabResults, NormalizedOf(fromPatentsView))
    IN fromPatentsView
       \o [i \in 1..Len(fromPtab) |-> [fromPtab[i] EXCEPT !.isChallenged = TRUE]]

\* fetchPatents: the PTAB search is commented out, ptabPatents stays
\* empty and mergedPatents = patentsViewPatents
fetchPatents(patentsViewPatents, ptabIndex) == patentsViewPatents

\* the patent channel fetches its result set
MergeFetch ==
    /\ merged.channel = "none"
    /\ merged' = [merged EXCEPT
           !.channel = "fetched",
           !.result = fetchPatents(merged.granted, merged.disputed)]
    /\ UNCHANGED <<pipelineVars, notMerged>>

\* a caller of the exported function merges the two lists
MergeCall ==
    /\ merged.called = FALSE
    /\ merged' = [merged EXCEPT
           !.called = TRUE,
           !.returned = mergePatentResults(merged.granted, merged.disputed)]
    /\ UNCHANGED <<pipelineVars, notMerged>>

InitMerge ==
    /\ env \in {e \in Environments :
                  e.tavily /\ e.ebay /\ e.patentsview /\ e.anthropic /\ e.openai}
    /\ HandlerIdle
    /\ \E g \in NumberLists, d \in NumberLists :
         merged = [granted |-> [i \in 1..Len(g) |->
                                   PatentReference(g[i], "USPTO_PATENTSVIEW", FALSE)],
                   disputed |-> [i \in 1..Len(d) |->
                                   PatentReference(d[i], "USPTO_PTAB", FALSE)],
                   channel |-> "none", result |-> <<>>,
                   called |-> FALSE, returned |-> <<>>]
    /\ gateway = "unused" /\ expansion = "unused" /\ retry = "unused"
    /\ cache = "unused" /\ limiter = "unused"
    /\ handoff = "unused" /\ signup = "unused"
    /\ searches = "unused"

NextMerge ==
    \/ MergeFetch
    \/ MergeCall

SpecMerge == InitMerge /\ [][NextMerge]_vars

\* the three properties of a merged list
IsMergeOf(list, granted, disputed) ==
    /\ \A i, j \in 1..Len(list) :
          i # j => Normalized(list[i].patentNumber) # Normalized(list[j].patentNumber)
    /\ \A i \in 1..Len(list) :
          list[i].source = "USPTO_PATENTSVIEW" =>
             (list[i].isChallenged <=>
                 Normalized(list[i].patentNumber) \in NormalizedOf(disputed))
    /\ \A n \in NormalizedOf(disputed) \ NormalizedOf(granted) :
          \E i \in 1..Len(list) :
             /\ Normalized(list[i].patentNumber) = n
             /\ list[i].isChallenged

\* C32: the patent channel's result set is the merge of the granted and
\* the disputed index: no two entries share a normalized patent number, a
\* granted entry is flagged challenged iff its normalized number is in the
\* disputed index, and every entry only in the disputed index is present
\* and flagged challenged.
C32_ChannelResultIsMerge ==
    merged.channel = "fetched" =>
        IsMergeOf(merged.result, merged.granted, merged.disputed)

C32_Witness ==
    /\ merged.channel = "fetched"
    /\ Len(merged.granted) = 1 /\ merged.granted[1].patentNumber = <<"U", "S", "1">>
    /\ Len(merged.disputed) = 2
    /\ merged.disputed[1].patentNumber = <<"u", "s", "-", "1">>
    /\ merged.disputed[2].patentNumber = <<"U", "S", "2">>
    /\ merged.result = merged.granted
    /\ merged.called
    /\ IsMergeOf(merged.returned, merged.granted, merged.disputed)
    /\ Len(merged.returned) = 2

(***************************************************************************)
(* The attempts field of a RetryResult (specification SpecRetry)           *)
(***************************************************************************)

\* C33: the attempts field of the RetryResult returned by withRetry equals
\* the number of times fn was invoked, on success and on failure alike,
\* also when the loop stops early on a non-retryable error or on an error
\* the retryOn predicate rejects.
C33_AttemptsCountInvocations ==
    retry.at = "returned" => retry.result.attempts = Invocations

C33_Witness ==
    /\ retry.at = "returned"
    /\ retry.options.maxAttempts = Absent
    /\ Invocations = 1
    /\ retry.history[1] = ThrownValue("Error", Msg401)
    /\ ~retry.result.success
    /\ retry.result.attempts = 3

(***************************************************************************)
(* The error createCompletion raises (specification SpecGateway)           *)
(***************************************************************************)

\* C34: createCompletion raises the 'both providers unavailable'
\* configuration error only when neither provider is configured; when the
\* primary provider is configured and its call fails, the error raised is
\* the primary's or the secondary's, never the configuration error.
C34_ConfigErrorOnlyWhenNoneConfigured ==
    (gateway.at = "raised" /\ gateway.error = ConfigError) =>
        ~env.anthropic /\ ~env.openai

C34_Witness ==
    /\ env.anthropic /\ ~env.openai
    /\ gateway.at = "raised"
    /\ gateway.calls = <<Call("anthropic", "claude-3-haiku-20240307")>>
    /\ gateway.primaryError = "overloaded"
    /\ gateway.error = ConfigError

(***************************************************************************)
(* Rows kept by concurrent storage-limit enforcement (SpecCacheRace)       *)
(***************************************************************************)

\* the keys of the written type stored before or by the calls
KeysStored ==
    {r.query_hash : r \in RowsOfType(cache.initial, cache.search_type)}
    \cup {RaceHash(cache.search_type)}

\* C35: under every interleaving of concurrent cacheSearchResults calls of
\* one web/retail type, once all calls have completed the number of rows
\* of that type is min(limit, number of distinct keys stored): enforcement
\* deletes no more rows than the excess over the limit.
C35_EnforcementDeletesOnlyExcess ==
    (RaceOver /\ Limited(cache.search_type)) =>
        Cardinality(RaceTypeRows) = Min(RaceLimit, Cardinality(KeysStored))

C35_Witness ==
    /\ RaceOver
    /\ cache.search_type = "retail"
    /\ Cardinality(KeysStored) = RaceLimit + 1
    /\ Cardinality(RaceTypeRows) = RaceLimit - 1
    /\ \A r \in RaceTypeRows : r.query_hash = RaceHash("retail")

(***************************************************************************)
(* Novelty reported by the web agent without findings (specification Spec) *)
(***************************************************************************)

\* the web agent returned a successful result, novel, with no findings
WebNovelNoFindings ==
    /\ agent["web"].at = "returned"
    /\ results["web"].is_novel
    /\ results["web"].truth_scores.defined
    /\ results["web"].truth_scores.completeness > 0
    /\ results["web"].findings = <<>>

\* C37: the web agent returns a successful result (completeness > 0) with
\* is_novel = true and no findings only if at least one search request
\* was issued and returned without error; it does not report novelty when
\* query generation yields an empty query list.
C37_NoveltyOnlyAfterSearch ==
    WebNovelNoFindings => trace["web"].search = "ok"

C37_Witness ==
    /\ WebNovelNoFindings
    /\ trace["web"].search = "no_request"
    /\ results["web"] = WebNoResults
    /\ pc = "done"
    /\ response.status = 200

(***************************************************************************)
(* runMultipleSearches on its own (specification SpecSearches): the        *)
(* answers to the Phase 1 and Phase 2 requests are drawn beforehand, the   *)
(* call consumes them in order.                                            *)
(***************************************************************************)
MaxSearchQueries == 2       \* queries passed to runMultipleSearches

\* the answers of the requests a loop issued
Issued(calls) == SubSeq(calls, 1, RequestsMade(calls))

\* Phase 1 returned at once on a stopping error
Phase1Returned(calls1) ==
    \E i \in 1..Len(calls1) :
        calls1[i].error # "none" /\ calls1[i].urls = {} /\ StopsSearch(calls1[i].error)

\* the URLs returned by the requests the call issued
Gathered(calls1, calls2) ==
    UNION {Issued(calls1)[i].urls : i \in 1..Len(Issued(calls1))}
    \cup (IF Phase1Returned(calls1) THEN {}
          ELSE UNION {Issued(calls2)[i].urls : i \in 1..Len(Issued(calls2))})

SearchesRun ==
    /\ searches.response = "none"
    /\ searches' = [searches EXCEPT
           !.response = "returned",
           !.value = runMultipleSearches(searches.calls1, searches.calls2)]
    /\ UNCHANGED <<pipelineVars, notSearches>>

InitSearches ==
    /\ env \in {e \in Environments :
                  e.tavily /\ e.ebay /\ e.patentsview /\ e.anthropic /\ e.openai}
    /\ HandlerIdle
    /\ \E nq \in 0..MaxSearchQueries :
         \E c1 \in SeqsOfLen(tavilySearch(env), Min(nq, 2)),
            c2 \in SeqsOfLen(tavilySearch(env), nq) :
            searches = [calls1 |-> c1, calls2 |-> c2, response |-> "none",
                        value |-> [error |-> "none", results |-> 0, requests |-> 0]]
    /\ gateway = "unused" /\ expansion = "unused" /\ retry = "unused"
    /\ cache = "unused" /\ limiter = "unused"
    /\ handoff = "unused" /\ merged = "unused" /\ signup = "unused"

NextSearches == SearchesRun

SpecSearches == InitSearches /\ [][NextSearches]_vars

\* C36: runMultipleSearches never discards results it has gathered: if any
\* query it issued returned results, the aggregated response contains
\* them and carries no error, even when a later query of either phase
\* fails with a rate-limit or API-key error.
C36_GatheredResultsKept ==
    (searches.response = "returned"
     /\ Gathered(searches.calls1, searches.calls2) # {}) =>
        /\ searches.value.error = "none"
        /\ searches.value.results =
              Cardinality(Gathered(searches.calls1, searches.calls2))

C36_Witness ==
    /\ searches.response = "returned"
    /\ Len(searches.calls1) = 2
    /\ searches.calls1[1] = SearchOk({1})
    /\ searches.calls1[2] = SearchErr("Tavily API rate limit exceeded (429)")
    /\ searches.value.error = "Tavily API rate limit exceeded (429)"
    /\ searches.value.results = 0
    /\ searches.value.requests = 2

(***************************************************************************)
(* The serialization of queryParams with nested object values              *)
(* (specification SpecHash).  JSON.stringify(queryParams, keys) takes the  *)
(* sorted top-level keys as its replacer: an array replacer is the list    *)
(* of property names written for every object, nested ones included, in    *)
(* the array's order.  A value is a number or an object.                   *)
(***************************************************************************)
Num(n) == [kind |-> "number", n |-> n, members |-> <<>>]
Obj(members) == [kind |-> "object", n |-> 0, members |-> members]

\* nested object values: {a:1}, {a:2}, {c:1}, {c:2}
NestedObjects == {<< <<k, Num(n)>> >> : k \in {"a", "c"}, n \in 1..2}

TopValues == {Num(1), Num(2)} \cup {Obj(o) : o \in NestedObjects}

\* the queryParams objects: {a: v} and {a: v, b: w}
NestedParams ==
    {<< <<"a", v>> >> : v \in TopValues}
    \cup {<< <<"a", v>>, <<"b", w>> >> : v \in TopValues, w \in TopValues}

\* Object.keys(queryParams).sort()
SortedKeys(params) ==
    LET sorted == SortKeys(params) IN [i \in 1..Len(sorted) |-> sorted[i][1]]

\* the members of an object that the replacer list names, in its order
RECURSIVE Listed(_, _)
Listed(members, keys) ==
    IF keys = <<>> THEN <<>>
    ELSE LET named == {i \in 1..Len(members) : members[i][1] = Head(keys)}
         IN (IF named = {} THEN <<>> ELSE <<members[CHOOSE i \in named : TRUE]>>)
            \o Listed(members, Tail(keys))

\* the members JSON.stringify writes for an object under the replacer
Written(members, keys) == Listed(members, keys)

\* JSON.stringify(value, keys)
RECURSIVE Serialize(_, _)
RECURSIVE SerializeMembers(_, _)
Serialize(value, keys) ==
    IF value.kind = "number" THEN <<DigitCode(value.n)>>
    ELSE <<OpenBrace>>
         \o SerializeMembers(Written(value.members, keys), keys)
         \o <<CloseBrace>>

SerializeMembers(pairs, keys) ==
    IF pairs = <<>> THEN <<>>
    ELSE <<Quote, CharCode(pairs[1][1]), Quote, Colon>>
         \o Serialize(pairs[1][2], keys)
         \o (IF Len(pairs) = 1 THEN <<>> ELSE <<Comma>>)
         \o SerializeMembers(Tail(pairs), keys)

\* the normalized string generateQueryHash hashes
Normalised(params) == Serialize(Obj(params), SortedKeys(params))

\* generateQueryHash for these objects
NestedQueryHash(searchType, params) ==
    <<searchType, AbsHalves(HashFrom(<<0, 0>>, Normalised(params)))>>

\* a caller hashes two queryParams of one search type
HashBoth ==
    /\ ~cache.hashed
    /\ cache' = [cache EXCEPT
           !.hashed = TRUE,
           !.normalised = <<Normalised(cache.left), Normalised(cache.right)>>,
           !.hashes = <<NestedQueryHash("web", cache.left),
                        NestedQueryHash("web", cache.right)>>]
    /\ UNCHANGED <<pipelineVars, notCache>>

InitHash ==
    /\ env \in {e \in Environments :
                  e.tavily /\ e.ebay /\ e.patentsview /\ e.anthropic /\ e.openai}
    /\ HandlerIdle
    /\ \E l \in NestedParams, r \in NestedParams :
         cache = [left |-> l, right |-> r, hashed |-> FALSE,
                  normalised |-> <<>>, hashes |-> <<>>]
    /\ gateway = "unused" /\ expansion = "unused" /\ retry = "unused"
    /\ limiter = "unused"
    /\ handoff = "unused" /\ merged = "unused" /\ signup = "unused"
    /\ searches = "unused"

NextHash == HashBoth

SpecHash == InitHash /\ [][NextHash]_vars

\* the two objects have the same keys and the same number values, and
\* differ inside a nested object value
DifferInNestedOnly(l, r) ==
    /\ l # r
    /\ Len(l) = Len(r)
    /\ \A i \in 1..Len(l) :
          /\ l[i][1] = r[i][1]
          /\ l[i][2].kind = r[i][2].kind
          /\ l[i][2].kind = "number" => l[i][2] = r[i][2]

\* C38: the normalized serialization keeps every key and value of
\* queryParams, nested object values included: two queryParams of one
\* search type that differ only inside a nested object value have
\* different serializations and different cache keys.
C38_NestedFieldsSerialized ==
    (cache.hashed /\ DifferInNestedOnly(cache.left, cache.right)) =>
        /\ cache.normalised[1] # cache.normalised[2]
        /\ cache.hashes[1] # cache.hashes[2]

C38_Witness ==
    /\ cache.hashed
    /\ cache.left = << <<"a", Obj(<< <<"c", Num(1)>> >>)>> >>
    /\ cache.right = << <<"a", Obj(<< <<"c", Num(2)>> >>)>> >>
    /\ cache.normalised[1] =
          <<OpenBrace, Quote, 97, Quote, Colon, OpenBrace, CloseBrace, CloseBrace>>
    /\ cache.normalised[2] = cache.normalised[1]
    /\ cache.hashes[1] = cache.hashes[2]

(***************************************************************************)
(* The signup endpoint (specification SpecSignup).  Each request reads the *)
(* number of profiles, lists the users when that read fails, and then      *)
(* creates the user; every await is a point where another request runs.    *)
(* A profile exists for every account.                                     *)
(***************************************************************************)
MAX_USERS == 10

\* listUsers({ perPage: 1, page: 1 })
PerPage == 1

MaxRequests == 2

Requests == 1..MaxRequests

SignupRequest(at, count, countError, listed, status) ==
    [at |-> at, count |-> count, countError |-> countError,
     listed |-> listed, status |-> status]

SignupsClosed == 403

\* the profile count: await supabase.from('profiles').select(..., head: true)
SignupCount(r) ==
    /\ signup.requests[r].at = "start"
    /\ \E countError \in BOOLEAN :
         signup' = [signup EXCEPT !.requests[r] =
            IF countError
            THEN SignupRequest("fallback", 0, TRUE, 0, 0)
            ELSE IF signup.accounts >= MAX_USERS
                 THEN SignupRequest("done", signup.accounts, FALSE, 0, SignupsClosed)
                 ELSE SignupRequest("create", signup.accounts, FALSE, 0, 0)]
    /\ UNCHANGED <<pipelineVars, notSignup>>

\* the fallback: await supabase.auth.admin.listUsers({ perPage: 1, page: 1 });
\* the listing holds one page of users, or no data at all
SignupListUsers(r) ==
    /\ signup.requests[r].at = "fallback"
    /\ \E data \in BOOLEAN :
         LET length == IF data THEN Min(signup.accounts, PerPage) ELSE 0
         IN signup' = [signup EXCEPT !.requests[r] =
               IF data /\ length >= MAX_USERS
               THEN SignupRequest("done", 0, TRUE, length, SignupsClosed)
               ELSE SignupRequest("create", 0, TRUE, length, 0)]
    /\ UNCHANGED <<pipelineVars, notSignup>>

\* await supabase.auth.admin.createUser(...): 400 on an error, else the user
SignupCreateUser(r) ==
    /\ signup.requests[r].at = "create"
    /\ \E error \in BOOLEAN :
         signup' = [signup EXCEPT
            !.accounts = IF error THEN @ ELSE @ + 1,
            !.requests[r].at = "done",
            !.requests[r].status = IF error THEN 400 ELSE 200]
    /\ UNCHANGED <<pipelineVars, notSignup>>

InitSignup ==
    /\ env \in {e \in Environments :
                  e.tavily /\ e.ebay /\ e.patentsview /\ e.anthropic /\ e.openai}
    /\ HandlerIdle
    /\ \E accounts \in 0..MAX_USERS :
         signup = [accounts |-> accounts,
                   requests |-> [r \in Requests |-> SignupRequest("start", 0, FALSE, 0, 0)]]
    /\ gateway = "unused" /\ expansion = "unused" /\ retry = "unused"
    /\ cache = "unused" /\ limiter = "unused"
    /\ handoff = "unused" /\ merged = "unused" /\ searches = "unused"

NextSignup ==
    \E r \in Requests :
        \/ SignupCount(r)
        \/ SignupListUsers(r)
        \/ SignupCreateUser(r)

SpecSignup == InitSignup /\ [][NextSignup]_vars

\* C39: the signup endpoint never creates a user once MAX_USERS accounts
\* exist: after any interleaving of concurrent requests, and when the
\* profile count fails and the user listing is used, the number of
\* accounts is at most MAX_USERS.
C39_AccountsAtMostMaxUsers == signup.accounts <= MAX_USERS

C39_Witness ==
    /\ signup.accounts = MAX_USERS + 1
    /\ signup.requests[1] = SignupRequest("done", MAX_USERS - 1, FALSE, 0, 200)
    /\ signup.requests[2] = SignupRequest("done", 0, TRUE, PerPage, 200)

====
